---- MODULE Spec2Model ----
(***************************************************************************)
(* A model of the crikey-irc protocol core: the Connection (line-framed    *)
(* poll / send over a byte stream), the Message / MessageBody /            *)
(* MessageParams / Command parsers and serializers, and the grammar        *)
(* entities they rest on.                                                  *)
(*                                                                         *)
(* Text is a sequence of one-character strings, so that slicing, searching *)
(* and concatenation are computed as the code computes them.               *)
(***************************************************************************)
EXTENDS Integers, Sequences, FiniteSets, TLC

\* ------------------------------------------------------------------ text

CR == "\r"
LF == "\n"
SP == " "
COLON == ":"
CRLF == <<CR, LF>>

Upper == {"A","B","C","D","E","F","G","H","I","J","K","L","M",
          "N","O","P","Q","R","S","T","U","V","W","X","Y","Z"}
Lower == {"a","b","c","d","e","f","g","h","i","j","k","l","m",
          "n","o","p","q","r","s","t","u","v","w","x","y","z"}
Digit == {"0","1","2","3","4","5","6","7","8","9"}
DigitChars == <<"0","1","2","3","4","5","6","7","8","9">>
\* The octets 0x5B..0x5F and 0x7B..0x7D (the backquote, 0x60, cannot be
\* written in a string here and is in no alphabet of the model).
Special == {"[", "\\", "]", "^", "_", "{", "|", "}"}
AlphaNum == Upper \cup Lower \cup Digit

\* s[n..] and s[..n] with Rust's 0-based byte offsets.
Drop(s, n) == SubSeq(s, n + 1, Len(s))
Take(s, n) == SubSeq(s, 1, n)
\* s[a..b]
Slice(s, a, b) == SubSeq(s, a + 1, b)

Contains(s, c) == \E i \in 1..Len(s) : s[i] = c
ContainsAny(s, cs) == \E i \in 1..Len(s) : s[i] \in cs
StartsWith(s, c) == Len(s) > 0 /\ s[1] = c

\* str::find(c): the 0-based offset of the first c, or -1 for None.
Find(s, c) ==
  IF Contains(s, c)
  THEN (CHOOSE i \in 1..Len(s) : s[i] = c /\ \A j \in 1..(i - 1) : s[j] # c) - 1
  ELSE -1

\* str::trim_end_matches(&['\r', '\n'][..])
RECURSIVE TrimEnd(_)
TrimEnd(s) ==
  IF Len(s) > 0 /\ s[Len(s)] \in {CR, LF} THEN TrimEnd(Take(s, Len(s) - 1)) ELSE s

\* str::split(cs): the pieces between the separators (always at least one).
RECURSIVE Split(_, _)
Split(s, cs) ==
  IF ContainsAny(s, cs)
  THEN LET i == CHOOSE i \in 1..Len(s) : s[i] \in cs /\ \A j \in 1..(i - 1) : s[j] \notin cs
       IN <<Take(s, i - 1)>> \o Split(Drop(s, i), cs)
  ELSE <<s>>

\* str::matches(cs).collect::<String>(): the separators themselves, in order.
Matches(s, cs) == SelectSeq(s, LAMBDA c : c \in cs)

\* [String]::join(sep)
RECURSIVE Join(_, _)
Join(parts, sep) ==
  IF Len(parts) = 0 THEN <<>>
  ELSE IF Len(parts) = 1 THEN parts[1]
  ELSE parts[1] \o sep \o Join(Tail(parts), sep)

\* String::replace(from, to) for single characters.
Replace(s, from, to) == [i \in 1..Len(s) |-> IF s[i] = from THEN to ELSE s[i]]

\* ---------------------------------------------------------------- results

Ok(v) == [ok |-> TRUE, val |-> v]
\* ParseError::new(struct_name)
ParseError(name) == [ok |-> FALSE, err |-> name]
None == [some |-> FALSE]
Some(v) == [some |-> TRUE, v |-> v]

AllOk(rs) == \A i \in 1..Len(rs) : rs[i].ok
\* The error the first failing `?` returns.
FirstErr(rs) == rs[CHOOSE i \in 1..Len(rs) : ~rs[i].ok /\ \A j \in 1..(i - 1) : rs[j].ok]

\* A panic (unwrap on Err, panic!) in place of a returned value.
Panic == <<"panic">>

\* ---------------------------------------------------------------- numbers

DigitVal(c) == (CHOOSE i \in 1..10 : DigitChars[i] = c) - 1

RECURSIVE DigitsVal(_)
DigitsVal(s) ==
  IF Len(s) = 0 THEN 0 ELSE 10 * DigitsVal(Take(s, Len(s) - 1)) + DigitVal(s[Len(s)])

\* <unsigned>::from_str: an optional '+', then one or more decimal digits,
\* and the value must fit the type (max).  -1 for Err.
ParseUnsigned(s, max) ==
  LET body == IF StartsWith(s, "+") THEN Tail(s) ELSE s
  IN IF Len(body) = 0 \/ \E i \in 1..Len(body) : body[i] \notin Digit THEN -1
     ELSE IF DigitsVal(body) > max THEN -1
     ELSE DigitsVal(body)

\* <unsigned>::to_string
RECURSIVE NumToString(_)
NumToString(n) ==
  IF n < 10 THEN <<DigitChars[n + 1]>> ELSE NumToString(n \div 10) \o <<DigitChars[(n % 10) + 1]>>

\* ---------------------------------------------------------------- entities

\* A character outside ASCII (two bytes in UTF-8), for str::is_ascii.
NonAscii == {"é"}
IsAscii(s) == ~ContainsAny(s, NonAscii)

\* Nickname::from_str taking the first character before the length check.
NicknameFromStrUnwrapFirst(raw) ==
  IF Len(raw) < 1 THEN [ok |-> FALSE, panic |-> TRUE]
  ELSE IF ~IsAscii(raw) THEN ParseError("Nickname")
  ELSE IF raw[1] \in Upper \cup Lower \cup Special
          /\ \A i \in 2..Len(raw) : raw[i] \in {"-"} \cup Digit \cup Upper \cup Lower \cup Special
  THEN Ok(raw)
  ELSE ParseError("Nickname")

\* Nickname::from_str.  The first octet is in 0x41..=0x7d, the others are
\* '-', a digit or in 0x41..=0x7d.
NicknameFromStr(raw) ==
  IF Len(raw) < 1 \/ ~IsAscii(raw) THEN ParseError("Nickname")
  ELSE IF raw[1] \in Upper \cup Lower \cup Special
  THEN IF \E i \in 2..Len(raw) : raw[i] \notin {"-"} \cup Digit \cup Upper \cup Lower \cup Special
       THEN ParseError("Nickname")
       ELSE Ok(raw)
  ELSE ParseError("Nickname")

\* Username::from_str.  (NUL is not a character of the model's alphabets.)
UsernameFromStr(raw) ==
  IF Len(raw) < 1 \/ ContainsAny(raw, {CR, LF, SP, "@"}) THEN ParseError("Username")
  ELSE Ok(raw)

\* name_from_string: every dot-separated label is non-empty, starts and ends
\* alphanumeric, and holds only alphanumerics, '-' and '_'.
NameFromString(raw) ==
  LET parts == Split(raw, {"."})
  IN IF \E k \in 1..Len(parts) :
          \/ Len(parts[k]) < 1
          \/ parts[k][1] \notin AlphaNum
          \/ parts[k][Len(parts[k])] \notin AlphaNum
          \/ \E i \in 1..Len(parts[k]) : parts[k][i] \notin AlphaNum \cup {"-", "_"}
     THEN None
     ELSE Some(raw)

\* Servername::from_str
ServernameFromStr(raw) ==
  IF NameFromString(raw).some THEN Ok(raw) ELSE ParseError("Servername")

\* Hostname::from_str
HostnameFromStr(raw) ==
  IF NameFromString(raw).some THEN Ok(raw) ELSE ParseError("Hostname")

\* IpAddr::from_str, dotted-quad IPv4: four decimal octets 0..255 without
\* leading zeros.  IPv6 text needs ':' inside the host, which the model's
\* inputs never place there.
IpAddrFromStr(raw) ==
  LET parts == Split(raw, {"."})
      octet(p) == /\ Len(p) \in 1..3
                  /\ \A i \in 1..Len(p) : p[i] \in Digit
                  /\ (Len(p) > 1 => p[1] # "0")
                  /\ DigitsVal(p) <= 255
  IN IF Len(parts) = 4 /\ \A k \in 1..4 : octet(parts[k])
     THEN Ok([k \in 1..4 |-> DigitsVal(parts[k])])
     ELSE ParseError("IpAddr")

\* Host::from_str: the IP address first, then the hostname.
HostFromStr(raw) ==
  IF IpAddrFromStr(raw).ok THEN Ok([t |-> "Hostaddr", ip |-> IpAddrFromStr(raw).val])
  ELSE IF HostnameFromStr(raw).ok THEN Ok([t |-> "Hostname", name |-> HostnameFromStr(raw).val])
  ELSE ParseError("Host")

\* From<Host> for String
HostToString(host) ==
  IF host.t = "Hostaddr"
  THEN Join([k \in 1..4 |-> NumToString(host.ip[k])], <<".">>)
  ELSE host.name

\* Sender::from_str with a fourth arm "!" => nickname!user.
SenderFromStrWithoutHost(raw) ==
  IF ServernameFromStr(raw).ok /\ Contains(raw, ".")
  THEN Ok([t |-> "Server", name |-> ServernameFromStr(raw).val])
  ELSE LET punct == Matches(raw, {"!", "@"})
           parts == Split(raw, {"!", "@"})
       IN IF punct = <<"!", "@">>
          THEN LET rs == <<NicknameFromStr(parts[1]), UsernameFromStr(parts[2]),
                           HostFromStr(parts[3])>>
               IN IF AllOk(rs)
                  THEN Ok([t |-> "User", nickname |-> rs[1].val,
                           user |-> Some(rs[2].val), host |-> Some(rs[3].val)])
                  ELSE FirstErr(rs)
          ELSE IF punct = <<"@">>
          THEN LET rs == <<NicknameFromStr(parts[1]), HostFromStr(parts[2])>>
               IN IF AllOk(rs)
                  THEN Ok([t |-> "User", nickname |-> rs[1].val,
                           user |-> None, host |-> Some(rs[2].val)])
                  ELSE FirstErr(rs)
          ELSE IF punct = <<>>
          THEN IF NicknameFromStr(raw).ok
               THEN Ok([t |-> "User", nickname |-> NicknameFromStr(raw).val,
                        user |-> None, host |-> None])
               ELSE NicknameFromStr(raw)
          ELSE IF punct = <<"!">>
          THEN LET rs == <<NicknameFromStr(parts[1]), UsernameFromStr(parts[2])>>
               IN IF AllOk(rs)
                  THEN Ok([t |-> "User", nickname |-> rs[1].val,
                           user |-> Some(rs[2].val), host |-> None])
                  ELSE FirstErr(rs)
          ELSE ParseError("Sender")

\* Sender::from_str
SenderFromStr(raw) ==
  IF ServernameFromStr(raw).ok /\ Contains(raw, ".")
  THEN Ok([t |-> "Server", name |-> ServernameFromStr(raw).val])
  ELSE LET punct == Matches(raw, {"!", "@"})
           parts == Split(raw, {"!", "@"})
       IN IF punct = <<"!", "@">>
          THEN LET rs == <<NicknameFromStr(parts[1]), UsernameFromStr(parts[2]),
                           HostFromStr(parts[3])>>
               IN IF AllOk(rs)
                  THEN Ok([t |-> "User", nickname |-> rs[1].val,
                           user |-> Some(rs[2].val), host |-> Some(rs[3].val)])
                  ELSE FirstErr(rs)
          ELSE IF punct = <<"@">>
          THEN LET rs == <<NicknameFromStr(parts[1]), HostFromStr(parts[2])>>
               IN IF AllOk(rs)
                  THEN Ok([t |-> "User", nickname |-> rs[1].val,
                           user |-> None, host |-> Some(rs[2].val)])
                  ELSE FirstErr(rs)
          ELSE IF punct = <<>>
          THEN IF NicknameFromStr(raw).ok
               THEN Ok([t |-> "User", nickname |-> NicknameFromStr(raw).val,
                        user |-> None, host |-> None])
               ELSE NicknameFromStr(raw)
          ELSE ParseError("Sender")

\* From<Nickname> for Sender
SenderFromNickname(nickname) ==
  [t |-> "User", nickname |-> nickname, user |-> None, host |-> None]

\* From<Sender> for String without the user part.
SenderToStringWithoutUser(sender) ==
  IF sender.t = "Server" THEN sender.name
  ELSE sender.nickname
       \o (IF sender.host.some THEN <<"@">> \o HostToString(sender.host.v) ELSE <<>>)

\* From<Sender> for String
SenderToString(sender) ==
  IF sender.t = "Server" THEN sender.name
  ELSE sender.nickname
       \o (IF sender.host.some
           THEN (IF sender.user.some THEN <<"!">> \o sender.user.v ELSE <<>>)
                \o <<"@">> \o HostToString(sender.host.v)
           ELSE <<>>)

\* KeywordList<T>::from_str, T's parser given as an operator.
KeywordListFromStr(raw, ElemFromStr(_)) ==
  IF Len(raw) > 0
  THEN LET parts == Split(raw, {","})
       IN IF \A k \in 1..Len(parts) : ElemFromStr(parts[k]).ok
          THEN Ok([k \in 1..Len(parts) |-> ElemFromStr(parts[k]).val])
          ELSE ParseError("KeywordList")
  ELSE Ok(<<>>)

\* From<KeywordList<T>> for String, T's renderer given as an operator.
KeywordListToString(list, ElemToString(_)) ==
  Join([k \in 1..Len(list) |-> ElemToString(list[k])], <<",">>)

Identity(s) == s

\* mask_from_string: longer than 2, ASCII, holds a '.', no wildcard in the
\* last label, and every label is non-empty, starts and ends with an
\* alphanumeric or wildcard and holds only alphanumerics, wildcards and '-'.
MaskFromString(raw) ==
  LET parts == Split(raw, {"."})
      wild == AlphaNum \cup {"*", "?"}
  IN IF /\ Len(raw) > 2
        /\ IsAscii(raw)
        /\ Contains(raw, ".")
        /\ ~ContainsAny(parts[Len(parts)], {"*", "?"})
     THEN IF \E k \in 1..Len(parts) :
               \/ Len(parts[k]) < 1
               \/ parts[k][1] \notin wild
               \/ parts[k][Len(parts[k])] \notin wild
               \/ \E i \in 1..Len(parts[k]) : parts[k][i] \notin wild \cup {"-"}
          THEN None
          ELSE Some(raw)
     ELSE None

\* HostMask::from_str
HostMaskFromStr(raw) ==
  IF MaskFromString(raw).some THEN Ok(raw) ELSE ParseError("HostMask")

\* ServerMask::from_str
ServerMaskFromStr(raw) ==
  IF MaskFromString(raw).some THEN Ok(raw) ELSE ParseError("ServerMask")

\* TargetMask::from_str
TargetMaskFromStr(raw) ==
  IF StartsWith(raw, "#")
  THEN IF HostMaskFromStr(Drop(raw, 1)).ok
       THEN Ok([t |-> "Host", mask |-> HostMaskFromStr(Drop(raw, 1)).val])
       ELSE HostMaskFromStr(Drop(raw, 1))
  ELSE IF StartsWith(raw, "$")
  THEN IF ServerMaskFromStr(Drop(raw, 1)).ok
       THEN Ok([t |-> "Server", mask |-> ServerMaskFromStr(Drop(raw, 1)).val])
       ELSE ServerMaskFromStr(Drop(raw, 1))
  ELSE ParseError("TargetMask")

\* From<TargetMask> for String
TargetMaskToString(target_mask) ==
  IF target_mask.t = "Host" THEN <<"#">> \o target_mask.mask ELSE <<"$">> \o target_mask.mask

\* StatsQuery::from_str
StatsQueryFromStr(raw) ==
  IF Len(raw) = 1
  THEN CASE raw[1] = "l" -> Ok([t |-> "List"])
         [] raw[1] = "m" -> Ok([t |-> "UsageCount"])
         [] raw[1] = "o" -> Ok([t |-> "Ops"])
         [] raw[1] = "u" -> Ok([t |-> "Uptime"])
         [] raw[1] \in AlphaNum \ {"l", "m", "o", "u"} -> Ok([t |-> "Unknown", c |-> raw[1]])
         [] OTHER -> ParseError("StatsQuery")
  ELSE ParseError("StatsQuery")

\* From<StatsQuery> for String
StatsQueryToString(stats_query) ==
  CASE stats_query.t = "List" -> <<"l">>
    [] stats_query.t = "UsageCount" -> <<"m">>
    [] stats_query.t = "Ops" -> <<"o">>
    [] stats_query.t = "Uptime" -> <<"u">>
    [] OTHER -> <<stats_query.c>>

\* ChannelID::from_str
ChannelIDFromStr(raw) ==
  IF Len(raw) # 5 THEN ParseError("ChannelID")
  ELSE IF \E i \in 1..Len(raw) : raw[i] \notin Upper \cup Digit THEN ParseError("ChannelID")
  ELSE Ok(raw)

\* ChannelName::from_str.  (NUL and BEL are not characters of the alphabets.)
ChannelNameFromStr(raw) ==
  IF Len(raw) < 1 \/ ContainsAny(raw, {CR, LF, SP, ",", ":"}) THEN ParseError("ChannelName")
  ELSE Ok(raw)

\* ChannelKey::from_str.  (Of the forbidden octets only LF, CR and the space
\* are characters of the alphabets.)
ChannelKeyFromStr(raw) ==
  IF Len(raw) < 1 \/ Len(raw) > 23 \/ ~IsAscii(raw) \/ ContainsAny(raw, {LF, CR, SP})
  THEN ParseError("ChannelKey")
  ELSE Ok(raw)

\* Channel::from_str
ChannelFromStr(raw0) ==
  LET index == Find(raw0, ":")
      raw == IF index >= 0 THEN Take(raw0, index) ELSE raw0
      mask == IF index >= 0 THEN ServerMaskFromStr(Drop(raw0, index + 1)) ELSE Ok(<<>>)
      server_mask == IF index >= 0 THEN Some(mask.val) ELSE None
  IN IF ~mask.ok THEN mask
     ELSE IF Len(raw) < 2 \/ Len(raw) > 50 THEN ParseError("Channel")
     ELSE IF StartsWith(raw, "!") /\ Len(raw) > 6
     THEN LET rs == <<ChannelIDFromStr(Slice(raw, 1, 6)), ChannelNameFromStr(Drop(raw, 6))>>
          IN IF AllOk(rs)
             THEN Ok([channel_type |-> [t |-> "Safe", id |-> rs[1].val],
                      channel_name |-> rs[2].val, server_mask |-> server_mask])
             ELSE FirstErr(rs)
     ELSE IF raw[1] \notin {"&", "+", "#"} THEN ParseError("Channel")
     ELSE IF ~ChannelNameFromStr(Drop(raw, 1)).ok THEN ChannelNameFromStr(Drop(raw, 1))
     ELSE Ok([channel_type |-> [t |-> CASE raw[1] = "&" -> "Local"
                                        [] raw[1] = "+" -> "NoMode"
                                        [] OTHER -> "Public"],
              channel_name |-> ChannelNameFromStr(Drop(raw, 1)).val,
              server_mask |-> server_mask])

\* From<ChannelType> for String
ChannelTypeToString(channel_type) ==
  CASE channel_type.t = "Local" -> <<"&">>
    [] channel_type.t = "NoMode" -> <<"+">>
    [] channel_type.t = "Public" -> <<"#">>
    [] OTHER -> <<"!">> \o channel_type.id

\* From<Channel> for String
ChannelToString(channel) ==
  ChannelTypeToString(channel.channel_type) \o channel.channel_name
    \o (IF channel.server_mask.some THEN <<":">> \o channel.server_mask.v ELSE <<>>)

\* Recipient::from_str without the first rule: Channel is tried before any
\* TargetMask.
RecipientFromStrChannelFirst(raw) ==
  IF ChannelFromStr(raw).ok
  THEN Ok([t |-> "Channel", channel |-> ChannelFromStr(raw).val])
  ELSE IF TargetMaskFromStr(raw).ok
  THEN Ok([t |-> "TargetMask", target_mask |-> TargetMaskFromStr(raw).val])
  ELSE IF NicknameFromStr(raw).ok
  THEN Ok([t |-> "Nickname", nickname |-> NicknameFromStr(raw).val])
  ELSE LET punct == Matches(raw, {"!", "@", "%"})
       IN IF punct = <<"!", "@">>
          THEN LET parts == Split(raw, {"!", "@"})
                   rs == <<NicknameFromStr(parts[1]), UsernameFromStr(parts[2]),
                           HostFromStr(parts[3])>>
               IN IF AllOk(rs)
                  THEN Ok([t |-> "NicknameUserHost", nickname |-> rs[1].val,
                           user |-> rs[2].val, host |-> rs[3].val])
                  ELSE FirstErr(rs)
          ELSE IF punct = <<"%", "@">>
          THEN LET parts == Split(raw, {"%", "@"})
                   rs == <<UsernameFromStr(parts[1]), HostFromStr(parts[2]),
                           ServernameFromStr(parts[3])>>
               IN IF AllOk(rs)
                  THEN Ok([t |-> "UserHostServername", user |-> rs[1].val,
                           host |-> rs[2].val, servername |-> rs[3].val])
                  ELSE FirstErr(rs)
          ELSE IF punct = <<"%">>
          THEN LET parts == Split(raw, {"%"})
                   rs == <<UsernameFromStr(parts[1]), HostFromStr(parts[2])>>
               IN IF AllOk(rs)
                  THEN Ok([t |-> "UserHost", user |-> rs[1].val, host |-> rs[2].val])
                  ELSE FirstErr(rs)
          ELSE IF punct = <<"@">>
          THEN LET parts == Split(raw, {"@"})
                   rs == <<UsernameFromStr(parts[1]), ServernameFromStr(parts[2])>>
               IN IF AllOk(rs)
                  THEN Ok([t |-> "UserServername", user |-> rs[1].val,
                           servername |-> rs[2].val])
                  ELSE FirstErr(rs)
          ELSE ParseError("Recipient")

\* Recipient::from_str
RecipientFromStr(raw) ==
  IF StartsWith(raw, "#") /\ ContainsAny(raw, {"*", "?"}) /\ TargetMaskFromStr(raw).ok
  THEN Ok([t |-> "TargetMask", target_mask |-> TargetMaskFromStr(raw).val])
  ELSE IF ChannelFromStr(raw).ok
  THEN Ok([t |-> "Channel", channel |-> ChannelFromStr(raw).val])
  ELSE IF TargetMaskFromStr(raw).ok
  THEN Ok([t |-> "TargetMask", target_mask |-> TargetMaskFromStr(raw).val])
  ELSE IF NicknameFromStr(raw).ok
  THEN Ok([t |-> "Nickname", nickname |-> NicknameFromStr(raw).val])
  ELSE LET punct == Matches(raw, {"!", "@", "%"})
       IN IF punct = <<"!", "@">>
          THEN LET parts == Split(raw, {"!", "@"})
                   rs == <<NicknameFromStr(parts[1]), UsernameFromStr(parts[2]),
                           HostFromStr(parts[3])>>
               IN IF AllOk(rs)
                  THEN Ok([t |-> "NicknameUserHost", nickname |-> rs[1].val,
                           user |-> rs[2].val, host |-> rs[3].val])
                  ELSE FirstErr(rs)
          ELSE IF punct = <<"%", "@">>
          THEN LET parts == Split(raw, {"%", "@"})
                   rs == <<UsernameFromStr(parts[1]), HostFromStr(parts[2]),
                           ServernameFromStr(parts[3])>>
               IN IF AllOk(rs)
                  THEN Ok([t |-> "UserHostServername", user |-> rs[1].val,
                           host |-> rs[2].val, servername |-> rs[3].val])
                  ELSE FirstErr(rs)
          ELSE IF punct = <<"%">>
          THEN LET parts == Split(raw, {"%"})
                   rs == <<UsernameFromStr(parts[1]), HostFromStr(parts[2])>>
               IN IF AllOk(rs)
                  THEN Ok([t |-> "UserHost", user |-> rs[1].val, host |-> rs[2].val])
                  ELSE FirstErr(rs)
          ELSE IF punct = <<"@">>
          THEN LET parts == Split(raw, {"@"})
                   rs == <<UsernameFromStr(parts[1]), ServernameFromStr(parts[2])>>
               IN IF AllOk(rs)
                  THEN Ok([t |-> "UserServername", user |-> rs[1].val,
                           servername |-> rs[2].val])
                  ELSE FirstErr(rs)
          ELSE ParseError("Recipient")

\* From<Recipient> for String
RecipientToString(msg_to) ==
  CASE msg_to.t = "Channel" -> ChannelToString(msg_to.channel)
    [] msg_to.t = "Nickname" -> msg_to.nickname
    [] msg_to.t = "NicknameUserHost" ->
         msg_to.nickname \o <<"!">> \o msg_to.user \o <<"@">> \o HostToString(msg_to.host)
    [] msg_to.t = "TargetMask" -> TargetMaskToString(msg_to.target_mask)
    [] msg_to.t = "UserHost" -> msg_to.user \o <<"%">> \o HostToString(msg_to.host)
    [] msg_to.t = "UserHostServername" ->
         msg_to.user \o <<"%">> \o HostToString(msg_to.host) \o <<"@">> \o msg_to.servername
    [] OTHER -> msg_to.user \o <<"@">> \o msg_to.servername

\* ------------------------------------------------------------ MessageParams

\* MessageParams::new
MessageParamsNew == [args |-> <<>>, has_space |-> FALSE]

\* MessageParams::push with the length test off by one.
PushPastLimit(params, value) ==
  IF Len(params.args) > 15 \/ params.has_space
  THEN [ok |-> FALSE, params |-> params]
  ELSE [ok |-> TRUE,
        params |-> [args |-> Append(params.args, value),
                    has_space |-> Contains(value, SP)]]

\* MessageParams::push without the has_space test.
PushAfterSpace(params, value) ==
  IF Len(params.args) >= 15
  THEN [ok |-> FALSE, params |-> params]
  ELSE [ok |-> TRUE,
        params |-> [args |-> Append(params.args, value),
                    has_space |-> Contains(value, SP)]]

\* MessageParams::push: [ok, params], params unchanged on Err.
Push(params, value) ==
  IF Len(params.args) >= 15 \/ params.has_space
  THEN [ok |-> FALSE, params |-> params]
  ELSE [ok |-> TRUE,
        params |-> [args |-> Append(params.args, value),
                    has_space |-> Contains(value, SP)]]

\* From<Vec<String>> for MessageParams: push(arg).unwrap() for each element.
\* [ok, params]: ok is FALSE when an unwrap panicked.
RECURSIVE FromVecLoop(_, _)
FromVecLoop(params, original) ==
  IF Len(original) = 0 THEN [ok |-> TRUE, params |-> params]
  ELSE IF ~Push(params, Head(original)).ok THEN [ok |-> FALSE, params |-> params]
  ELSE FromVecLoop(Push(params, Head(original)).params, Tail(original))

FromVec(original) == FromVecLoop(MessageParamsNew, original)

\* The 0-based offsets of the spaces of raw: raw.match_indices(' ').
SpaceOffsets(raw) ==
  SelectSeq([i \in 1..Len(raw) |-> i - 1], LAMBDA o : raw[o + 1] = SP)

\* The for loop of MessageParams::from_str stopping at 15 parameters.
RECURSIVE ParamsLoopFifteen(_, _, _, _)
ParamsLoopFifteen(raw, ends, start, args) ==
  IF Len(ends) = 0 THEN [start |-> start, args |-> args]
  ELSE IF StartsWith(Drop(raw, start), COLON) \/ Len(args) >= 15
  THEN [start |-> start, args |-> args]
  ELSE ParamsLoopFifteen(raw, Tail(ends), Head(ends) + 1,
                         IF start < Head(ends)
                         THEN Append(args, Slice(raw, start, Head(ends)))
                         ELSE args)

\* The for loop of MessageParams::from_str over the offsets still to visit.
RECURSIVE ParamsLoop(_, _, _, _)
ParamsLoop(raw, ends, start, args) ==
  IF Len(ends) = 0 THEN [start |-> start, args |-> args]
  ELSE IF StartsWith(Drop(raw, start), COLON) \/ Len(args) >= 14
  THEN [start |-> start, args |-> args]
  ELSE ParamsLoop(raw, Tail(ends), Head(ends) + 1,
                  IF start < Head(ends)
                  THEN Append(args, Slice(raw, start, Head(ends)))
                  ELSE args)

\* MessageParams::from_str (it never fails).
MessageParamsFromStr(raw) ==
  LET after == ParamsLoop(raw, SpaceOffsets(raw), 0, <<>>)
      start == IF StartsWith(Drop(raw, after.start), COLON)
               THEN after.start + 1 ELSE after.start
      args == IF after.start < Len(raw)
              THEN Append(after.args, Drop(raw, start))
              ELSE after.args
  IN Ok([args |-> args,
         has_space |-> IF Len(args) > 0 THEN Contains(args[Len(args)], SP) ELSE FALSE])

\* The for loop of From<MessageParams> for String without the fixup.
RECURSIVE RenderLoopWithoutFixup(_, _, _)
RenderLoopWithoutFixup(args, result, last_elment_is_empty) ==
  IF Len(args) = 0 THEN result
  ELSE LET arg == Head(args)
           r1 == IF Len(result) # 0 THEN result \o <<SP>> ELSE result
           r2 == IF Contains(arg, SP) THEN r1 \o <<COLON>> ELSE r1
       IN IF arg = <<>>
          THEN RenderLoopWithoutFixup(Tail(args), r2 \o <<"*">>, TRUE)
          ELSE RenderLoopWithoutFixup(Tail(args), r2 \o arg, FALSE)

\* The for loop of From<MessageParams> for String and the fixup after it.
RECURSIVE RenderLoop(_, _, _)
RenderLoop(args, result, last_elment_is_empty) ==
  IF Len(args) = 0
  THEN IF last_elment_is_empty THEN Take(result, Len(result) - 1) \o <<COLON>> ELSE result
  ELSE LET arg == Head(args)
           r1 == IF Len(result) # 0 THEN result \o <<SP>> ELSE result
           r2 == IF Contains(arg, SP) THEN r1 \o <<COLON>> ELSE r1
       IN IF arg = <<>>
          THEN RenderLoop(Tail(args), r2 \o <<"*">>, TRUE)
          ELSE RenderLoop(Tail(args), r2 \o arg, FALSE)

\* From<MessageParams> for String
MessageParamsToString(command_args) == RenderLoop(command_args.args, <<>>, FALSE)

\* MessageParams::to_string_with_prefix, on the result of From<Vec<String>>.
ToStringWithPrefix(built, prefix) ==
  IF ~built.ok THEN Panic ELSE prefix \o <<SP>> \o MessageParamsToString(built.params)

\* ---------------------------------------------------------------- ReplyType

\* The numerics ReplyType::from_str maps to a named variant.  From<ReplyType>
\* for String maps each named variant back to the numeric from_str reads it
\* from (the two tables hold the same 137 pairs), so a named variant is kept
\* here as "Named" with its numeric.
NamedReplyCodes ==
  (1..5) \cup (200..212) \cup {219, 221, 234, 235, 242, 243} \cup (251..259)
  \cup {261, 262, 263, 301, 302, 303, 305, 306} \cup (311..315)
  \cup {317, 318, 319} \cup (321..325) \cup {331, 332, 341, 342} \cup (346..349)
  \cup {351, 352, 353} \cup (364..369) \cup {371, 372, 374, 375, 376, 381, 382, 383}
  \cup (391..395) \cup (401..409) \cup (411..415) \cup (421..424)
  \cup {431, 432, 433, 436, 437} \cup (441..446) \cup {451} \cup (461..467)
  \cup (471..478) \cup {481, 482, 483, 484, 485, 491, 501, 502}

\* ReplyType::from_str
ReplyTypeFromStr(raw) ==
  IF Len(raw) # 3 \/ ~IsAscii(raw) THEN ParseError("ReplyType")
  ELSE LET raw_int == ParseUnsigned(raw, 65535)
       IN IF raw_int < 0 THEN ParseError("ReplyType")
          ELSE IF raw_int \in NamedReplyCodes THEN Ok([variant |-> "Named", code |-> raw_int])
          ELSE IF raw_int \in 0..99 THEN Ok([variant |-> "PrvUnknown", code |-> raw_int])
          ELSE IF raw_int \in 200..399 THEN Ok([variant |-> "RplUnknown", code |-> raw_int])
          ELSE IF raw_int \in 400..599 THEN Ok([variant |-> "ErrUnknown", code |-> raw_int])
          ELSE ParseError("ReplyType")

\* From<ReplyType> for String with format!("{}", code): no padding.
ReplyTypeToStringUnpadded(reply_type) == NumToString(reply_type.code)

\* From<ReplyType> for String: format!("{:0>3}", code)
ReplyTypeToString(reply_type) ==
  LET digits == NumToString(reply_type.code)
  IN [i \in 1..(3 - Len(digits)) |-> "0"] \o digits

\* ------------------------------------------------------------------ Command

\* `field: args[i].parse()?` for one, two and three parsed fields, in order.
Try1(r1, Build(_)) == IF r1.ok THEN Ok(Build(r1.val)) ELSE r1
Try2(r1, r2, Build(_, _)) ==
  IF AllOk(<<r1, r2>>) THEN Ok(Build(r1.val, r2.val)) ELSE FirstErr(<<r1, r2>>)
Try3(r1, r2, r3, Build(_, _, _)) ==
  IF AllOk(<<r1, r2, r3>>) THEN Ok(Build(r1.val, r2.val, r3.val)) ELSE FirstErr(<<r1, r2, r3>>)

\* args[i].parse().map_err(|_| ParseError::new("Command")) for u8 and u16.
NumberFromStr(raw, max) ==
  IF ParseUnsigned(raw, max) < 0 THEN ParseError("Command") ELSE Ok(ParseUnsigned(raw, max))

ChannelsFromStr(raw) == KeywordListFromStr(raw, ChannelFromStr)
KeysFromStr(raw) == KeywordListFromStr(raw, ChannelKeyFromStr)
NicknamesFromStr(raw) == KeywordListFromStr(raw, NicknameFromStr)
UsernamesFromStr(raw) == KeywordListFromStr(raw, UsernameFromStr)
RecipientsFromStr(raw) == KeywordListFromStr(raw, RecipientFromStr)

\* The match of Command::from_str on (raw_command, args.len()).
CommandMatch(raw_command, raw_args, args) ==
  LET n == Len(args)
  IN CASE raw_command = <<"P","A","S","S">> /\ n = 1 -> Ok([t |-> "Pass", password |-> args[1]])
       [] raw_command = <<"N","I","C","K">> /\ n = 1 ->
            Try1(NicknameFromStr(args[1]), LAMBDA a : [t |-> "Nick", nickname |-> a])
       [] raw_command = <<"U","S","E","R">> /\ n = 4 ->
            Try2(UsernameFromStr(args[1]), NumberFromStr(args[2], 255),
                 LAMBDA a, b : [t |-> "User", username |-> a, mode |-> b, realname |-> args[4]])
       [] raw_command = <<"O","P","E","R">> /\ n = 2 ->
            Try1(UsernameFromStr(args[1]),
                 LAMBDA a : [t |-> "Oper", user |-> a, password |-> args[2]])
       [] raw_command = <<"M","O","D","E">> /\ n \in 2..15 ->
            LET modes == IF Find(raw_args, SP) >= 0
                         THEN Drop(raw_args, Find(raw_args, SP) + 1) ELSE <<>>
            IN IF ChannelFromStr(args[1]).ok
               THEN Ok([t |-> "ChannelMode", channel |-> ChannelFromStr(args[1]).val,
                        modes |-> modes])
               ELSE IF NicknameFromStr(args[1]).ok
               THEN Ok([t |-> "UserMode", nickname |-> NicknameFromStr(args[1]).val,
                        modes |-> modes])
               ELSE ParseError("Command")
       [] raw_command = <<"S","E","R","V","I","C","E">> /\ n = 6 ->
            Try2(NicknameFromStr(args[1]), ServerMaskFromStr(args[3]),
                 LAMBDA a, b : [t |-> "Service", nickname |-> a, distribution |-> b,
                                info |-> args[6]])
       [] raw_command = <<"Q","U","I","T">> /\ n = 0 -> Ok([t |-> "Quit", message |-> None])
       [] raw_command = <<"Q","U","I","T">> /\ n = 1 -> Ok([t |-> "Quit", message |-> Some(args[1])])
       [] raw_command = <<"S","Q","U","I","T">> /\ n = 2 ->
            Try1(ServernameFromStr(args[1]),
                 LAMBDA a : [t |-> "SQuit", server |-> a, comment |-> args[2]])
       [] raw_command = <<"J","O","I","N">> /\ n = 1 ->
            IF args[1] = <<"0">>
            THEN Ok([t |-> "Join", channels |-> <<>>, keys |-> <<>>])
            ELSE Try1(ChannelsFromStr(args[1]),
                      LAMBDA a : [t |-> "Join", channels |-> a, keys |-> <<>>])
       [] raw_command = <<"J","O","I","N">> /\ n = 2 ->
            Try2(ChannelsFromStr(args[1]), KeysFromStr(args[2]),
                 LAMBDA a, b : [t |-> "Join", channels |-> a, keys |-> b])
       [] raw_command = <<"P","A","R","T">> /\ n = 1 ->
            Try1(ChannelsFromStr(args[1]),
                 LAMBDA a : [t |-> "Part", channels |-> a, message |-> None])
       [] raw_command = <<"P","A","R","T">> /\ n = 2 ->
            Try1(ChannelsFromStr(args[1]),
                 LAMBDA a : [t |-> "Part", channels |-> a, message |-> Some(args[2])])
       [] raw_command = <<"T","O","P","I","C">> /\ n = 1 ->
            Try1(ChannelFromStr(args[1]),
                 LAMBDA a : [t |-> "Topic", channel |-> a, topic |-> None])
       [] raw_command = <<"T","O","P","I","C">> /\ n = 2 ->
            Try1(ChannelFromStr(args[1]),
                 LAMBDA a : [t |-> "Topic", channel |-> a, topic |-> Some(args[2])])
       [] raw_command = <<"N","A","M","E","S">> /\ n = 0 ->
            Ok([t |-> "Names", channels |-> <<>>, target |-> None])
       [] raw_command = <<"N","A","M","E","S">> /\ n = 1 ->
            Try1(ChannelsFromStr(args[1]),
                 LAMBDA a : [t |-> "Names", channels |-> a, target |-> None])
       [] raw_command = <<"N","A","M","E","S">> /\ n = 2 ->
            Try2(ChannelsFromStr(args[1]), ServerMaskFromStr(args[2]),
                 LAMBDA a, b : [t |-> "Names", channels |-> a, target |-> Some(b)])
       [] raw_command = <<"L","I","S","T">> /\ n = 0 ->
            Ok([t |-> "List", channels |-> <<>>, target |-> None])
       [] raw_command = <<"L","I","S","T">> /\ n = 1 ->
            Try1(ChannelsFromStr(args[1]),
                 LAMBDA a : [t |-> "List", channels |-> a, target |-> None])
       [] raw_command = <<"L","I","S","T">> /\ n = 2 ->
            Try2(ChannelsFromStr(args[1]), ServerMaskFromStr(args[2]),
                 LAMBDA a, b : [t |-> "List", channels |-> a, target |-> Some(b)])
       [] raw_command = <<"I","N","V","I","T","E">> /\ n = 2 ->
            Try2(NicknameFromStr(args[1]), ChannelFromStr(args[2]),
                 LAMBDA a, b : [t |-> "Invite", nickname |-> a, channel |-> b])
       [] raw_command = <<"K","I","C","K">> /\ n = 2 ->
            Try2(ChannelsFromStr(args[1]), UsernamesFromStr(args[2]),
                 LAMBDA a, b : [t |-> "Kick", channels |-> a, users |-> b, comment |-> None])
       [] raw_command = <<"K","I","C","K">> /\ n = 3 ->
            Try2(ChannelsFromStr(args[1]), UsernamesFromStr(args[2]),
                 LAMBDA a, b : [t |-> "Kick", channels |-> a, users |-> b,
                                comment |-> Some(args[3])])
       [] raw_command = <<"P","R","I","V","M","S","G">> /\ n = 2 ->
            Try1(RecipientsFromStr(args[1]),
                 LAMBDA a : [t |-> "Privmsg", recipients |-> a, message |-> args[2]])
       [] raw_command = <<"N","O","T","I","C","E">> /\ n = 2 ->
            Try1(RecipientsFromStr(args[1]),
                 LAMBDA a : [t |-> "Notice", recipients |-> a, message |-> args[2]])
       [] raw_command = <<"M","O","T","D">> /\ n = 0 -> Ok([t |-> "Motd", target |-> None])
       [] raw_command = <<"M","O","T","D">> /\ n = 1 ->
            Try1(ServerMaskFromStr(args[1]), LAMBDA a : [t |-> "Motd", target |-> Some(a)])
       [] raw_command = <<"L","U","S","E","R","S">> /\ n = 0 ->
            Ok([t |-> "LUsers", mask |-> None, target |-> None])
       [] raw_command = <<"L","U","S","E","R","S">> /\ n = 1 ->
            Try1(ServerMaskFromStr(args[1]),
                 LAMBDA a : [t |-> "LUsers", mask |-> Some(a), target |-> None])
       [] raw_command = <<"L","U","S","E","R","S">> /\ n = 2 ->
            Try2(ServerMaskFromStr(args[1]), ServernameFromStr(args[2]),
                 LAMBDA a, b : [t |-> "LUsers", mask |-> Some(a), target |-> Some(b)])
       [] raw_command = <<"V","E","R","S","I","O","N">> /\ n = 0 -> Ok([t |-> "Version", target |-> None])
       [] raw_command = <<"V","E","R","S","I","O","N">> /\ n = 1 ->
            Try1(ServerMaskFromStr(args[1]), LAMBDA a : [t |-> "Version", target |-> Some(a)])
       [] raw_command = <<"S","T","A","T","S">> /\ n = 0 ->
            Ok([t |-> "Stats", query |-> None, target |-> None])
       [] raw_command = <<"S","T","A","T","S">> /\ n = 1 ->
            Try1(StatsQueryFromStr(args[1]),
                 LAMBDA a : [t |-> "Stats", query |-> Some(a), target |-> None])
       [] raw_command = <<"S","T","A","T","S">> /\ n = 2 ->
            Try2(StatsQueryFromStr(args[1]), ServerMaskFromStr(args[2]),
                 LAMBDA a, b : [t |-> "Stats", query |-> Some(a), target |-> Some(b)])
       [] raw_command = <<"L","I","N","K","S">> /\ n = 0 ->
            Ok([t |-> "Links", mask |-> None, target |-> None])
       [] raw_command = <<"L","I","N","K","S">> /\ n = 1 ->
            Try1(ServerMaskFromStr(args[1]),
                 LAMBDA a : [t |-> "Links", mask |-> Some(a), target |-> None])
       [] raw_command = <<"L","I","N","K","S">> /\ n = 2 ->
            Try2(ServerMaskFromStr(args[2]), ServerMaskFromStr(args[1]),
                 LAMBDA a, b : [t |-> "Links", mask |-> Some(a), target |-> Some(b)])
       [] raw_command = <<"T","I","M","E">> /\ n = 0 -> Ok([t |-> "Time", target |-> None])
       [] raw_command = <<"T","I","M","E">> /\ n = 1 ->
            Try1(ServerMaskFromStr(args[1]), LAMBDA a : [t |-> "Time", target |-> Some(a)])
       [] raw_command = <<"C","O","N","N","E","C","T">> /\ n = 2 ->
            Try2(ServernameFromStr(args[1]), NumberFromStr(args[2], 65535),
                 LAMBDA a, b : [t |-> "Connect", target |-> a, port |-> b, remote |-> None])
       [] raw_command = <<"C","O","N","N","E","C","T">> /\ n = 3 ->
            Try3(ServernameFromStr(args[1]), NumberFromStr(args[2], 65535),
                 ServernameFromStr(args[3]),
                 LAMBDA a, b, c : [t |-> "Connect", target |-> a, port |-> b,
                                   remote |-> Some(c)])
       [] raw_command = <<"T","R","A","C","E">> /\ n = 0 -> Ok([t |-> "Trace", target |-> None])
       [] raw_command = <<"T","R","A","C","E">> /\ n = 1 -> Ok([t |-> "Trace", target |-> Some(args[1])])
       [] raw_command = <<"A","D","M","I","N">> /\ n = 0 -> Ok([t |-> "Admin", target |-> None])
       [] raw_command = <<"A","D","M","I","N">> /\ n = 1 -> Ok([t |-> "Admin", target |-> Some(args[1])])
       [] raw_command = <<"I","N","F","O">> /\ n = 0 -> Ok([t |-> "Info", target |-> None])
       [] raw_command = <<"I","N","F","O">> /\ n = 1 -> Ok([t |-> "Info", target |-> Some(args[1])])
       [] raw_command = <<"S","E","R","V","L","I","S","T">> /\ n = 0 ->
            Ok([t |-> "ServList", mask |-> None, service_type |-> None])
       [] raw_command = <<"S","E","R","V","L","I","S","T">> /\ n = 1 ->
            Ok([t |-> "ServList", mask |-> Some(args[1]), service_type |-> None])
       [] raw_command = <<"S","E","R","V","L","I","S","T">> /\ n = 2 ->
            Ok([t |-> "ServList", mask |-> Some(args[1]), service_type |-> Some(args[2])])
       [] raw_command = <<"S","Q","U","E","R","Y">> /\ n = 2 ->
            Try1(RecipientFromStr(args[1]),
                 LAMBDA a : [t |-> "SQuery", recipient |-> a, message |-> args[2]])
       [] raw_command = <<"W","H","O">> /\ n = 0 -> Ok([t |-> "Who", mask |-> None, op_only |-> FALSE])
       [] raw_command = <<"W","H","O">> /\ n = 1 ->
            Ok([t |-> "Who", mask |-> Some(args[1]), op_only |-> FALSE])
       [] raw_command = <<"W","H","O">> /\ n = 2 ->
            IF args[2] = <<"o">>
            THEN Ok([t |-> "Who", mask |-> Some(args[1]), op_only |-> TRUE])
            ELSE ParseError("Command")
       [] raw_command = <<"W","H","O","I","S">> /\ n = 1 ->
            Ok([t |-> "WhoIs", mask |-> args[1], target |-> None])
       [] raw_command = <<"W","H","O","I","S">> /\ n = 2 ->
            Try1(ServerMaskFromStr(args[1]),
                 LAMBDA a : [t |-> "WhoIs", mask |-> args[2], target |-> Some(a)])
       [] raw_command = <<"W","H","O","W","A","S">> /\ n = 1 ->
            Try1(NicknamesFromStr(args[1]),
                 LAMBDA a : [t |-> "WhoWas", nicknames |-> a, count |-> None, target |-> None])
       [] raw_command = <<"W","H","O","W","A","S">> /\ n = 2 ->
            Try2(NicknamesFromStr(args[1]), NumberFromStr(args[2], 65535),
                 LAMBDA a, b : [t |-> "WhoWas", nicknames |-> a, count |-> Some(b),
                                target |-> None])
       [] raw_command = <<"W","H","O","W","A","S">> /\ n = 3 ->
            Try3(NicknamesFromStr(args[1]), NumberFromStr(args[2], 65535),
                 ServerMaskFromStr(args[3]),
                 LAMBDA a, b, c : [t |-> "WhoWas", nicknames |-> a, count |-> Some(b),
                                   target |-> Some(c)])
       [] raw_command = <<"K","I","L","L">> /\ n = 2 ->
            Try1(NicknameFromStr(args[1]),
                 LAMBDA a : [t |-> "Kill", nickname |-> a, comment |-> args[2]])
       [] raw_command = <<"P","I","N","G">> /\ n = 0 -> Ok([t |-> "Ping", from |-> None, to |-> None])
       [] raw_command = <<"P","I","N","G">> /\ n = 1 ->
            IF StartsWith(raw_args, COLON)
            THEN Try1(SenderFromStr(args[1]),
                      LAMBDA a : [t |-> "Ping", from |-> Some(a), to |-> None])
            ELSE Try1(SenderFromStr(args[1]),
                      LAMBDA a : [t |-> "Ping", from |-> None, to |-> Some(a)])
       [] raw_command = <<"P","I","N","G">> /\ n = 2 ->
            Try2(SenderFromStr(args[1]), SenderFromStr(args[2]),
                 LAMBDA a, b : [t |-> "Ping", from |-> Some(a), to |-> Some(b)])
       [] raw_command = <<"P","O","N","G">> /\ n = 1 ->
            Try1(SenderFromStr(args[1]), LAMBDA a : [t |-> "Pong", from |-> a, to |-> None])
       [] raw_command = <<"P","O","N","G">> /\ n = 2 ->
            Try2(SenderFromStr(args[1]), SenderFromStr(args[2]),
                 LAMBDA a, b : [t |-> "Pong", from |-> a, to |-> Some(b)])
       [] raw_command = <<"E","R","R","O","R">> /\ n = 1 -> Ok([t |-> "Error", message |-> args[1]])
       [] raw_command = <<"A","W","A","Y">> /\ n = 0 -> Ok([t |-> "Away", message |-> None])
       [] raw_command = <<"A","W","A","Y">> /\ n = 1 -> Ok([t |-> "Away", message |-> Some(args[1])])
       [] raw_command = <<"R","E","H","A","S","H">> /\ n = 0 -> Ok([t |-> "Rehash"])
       [] raw_command = <<"D","I","E">> /\ n = 0 -> Ok([t |-> "Die"])
       [] raw_command = <<"R","E","S","T","A","R","T">> /\ n = 0 -> Ok([t |-> "Restart"])
       [] raw_command = <<"S","U","M","M","O","N">> /\ n = 1 ->
            Try1(UsernameFromStr(args[1]),
                 LAMBDA a : [t |-> "Summon", user |-> a, target |-> None, channel |-> None])
       [] raw_command = <<"S","U","M","M","O","N">> /\ n = 2 ->
            Try2(UsernameFromStr(args[1]), ServernameFromStr(args[2]),
                 LAMBDA a, b : [t |-> "Summon", user |-> a, target |-> Some(b),
                                channel |-> None])
       [] raw_command = <<"S","U","M","M","O","N">> /\ n = 3 ->
            Try3(UsernameFromStr(args[1]), ServernameFromStr(args[2]), ChannelFromStr(args[3]),
                 LAMBDA a, b, c : [t |-> "Summon", user |-> a, target |-> Some(b),
                                   channel |-> Some(c)])
       [] raw_command = <<"U","S","E","R","S">> /\ n = 0 -> Ok([t |-> "Users", target |-> None])
       [] raw_command = <<"U","S","E","R","S">> /\ n = 1 ->
            Try1(ServernameFromStr(args[1]), LAMBDA a : [t |-> "Users", target |-> Some(a)])
       [] raw_command = <<"W","A","L","L","O","P","S">> /\ n = 1 -> Ok([t |-> "WallOps", message |-> args[1]])
       [] raw_command = <<"U","S","E","R","H","O","S","T">> /\ n \in 1..15 ->
            Try1(NicknamesFromStr(Join(args, <<",">>)),
                 LAMBDA a : [t |-> "UserHost", nicknames |-> a])
       [] raw_command = <<"I","S","O","N">> /\ n \in 1..15 ->
            Try1(NicknamesFromStr(Join(args, <<",">>)),
                 LAMBDA a : [t |-> "IsOn", nicknames |-> a])
       [] OTHER -> ParseError("Command")

\* Command::from_str
CommandFromStr(raw) ==
  LET index == Find(raw, SP)
      raw_command == IF index >= 0 THEN Take(raw, index) ELSE raw
      raw_args == IF index >= 0 THEN Drop(raw, index + 1) ELSE <<>>
  IN CommandMatch(raw_command, raw_args, MessageParamsFromStr(raw_args).val.args)

\* MessageParams::from(vec![...]).to_string_with_prefix(prefix)
WithPrefix(prefix, vec) == ToStringWithPrefix(FromVec(vec), prefix)

ChannelsToString(list) == KeywordListToString(list, ChannelToString)
StringsToString(list) == KeywordListToString(list, Identity)
RecipientsToString(list) == KeywordListToString(list, RecipientToString)

\* From<Command> for String
CommandToString(command) ==
  LET c == command
  IN CASE c.t = "Pass" -> WithPrefix(<<"P","A","S","S">>, <<c.password>>)
       [] c.t = "Nick" -> WithPrefix(<<"N","I","C","K">>, <<c.nickname>>)
       [] c.t = "User" ->
            WithPrefix(<<"U","S","E","R">>, <<c.username, NumToString(c.mode), <<"*">>, c.realname>>)
       [] c.t = "Oper" -> WithPrefix(<<"O","P","E","R">>, <<c.user, c.password>>)
       [] c.t = "UserMode" -> WithPrefix(<<"M","O","D","E">>, <<c.nickname, c.modes>>)
       [] c.t = "Service" ->
            WithPrefix(<<"S","E","R","V","I","C","E">>, <<c.nickname, <<>>, c.distribution, <<"0">>, <<"0">>, c.info>>)
       [] c.t = "Quit" ->
            IF ~c.message.some THEN <<"Q","U","I","T">> ELSE WithPrefix(<<"Q","U","I","T">>, <<c.message.v>>)
       [] c.t = "SQuit" -> WithPrefix(<<"S","Q","U","I","T">>, <<c.server, c.comment>>)
       [] c.t = "Join" ->
            IF Len(c.channels) = 0 THEN <<"J","O","I","N"," ","0">>
            ELSE IF Len(c.keys) = 0 THEN WithPrefix(<<"J","O","I","N">>, <<ChannelsToString(c.channels)>>)
            ELSE WithPrefix(<<"J","O","I","N">>, <<ChannelsToString(c.channels), StringsToString(c.keys)>>)
       [] c.t = "Part" ->
            IF ~c.message.some THEN WithPrefix(<<"P","A","R","T">>, <<ChannelsToString(c.channels)>>)
            ELSE WithPrefix(<<"P","A","R","T">>, <<ChannelsToString(c.channels), c.message.v>>)
       [] c.t = "ChannelMode" -> <<"M","O","D","E"," ">> \o ChannelToString(c.channel) \o <<SP>> \o c.modes
       [] c.t = "Topic" ->
            IF ~c.topic.some THEN WithPrefix(<<"T","O","P","I","C">>, <<ChannelToString(c.channel)>>)
            ELSE WithPrefix(<<"T","O","P","I","C">>, <<ChannelToString(c.channel), c.topic.v>>)
       [] c.t = "Names" ->
            IF ~c.target.some /\ Len(c.channels) = 0 THEN <<"N","A","M","E","S">>
            ELSE IF ~c.target.some THEN WithPrefix(<<"N","A","M","E","S">>, <<ChannelsToString(c.channels)>>)
            ELSE WithPrefix(<<"N","A","M","E","S">>, <<ChannelsToString(c.channels), c.target.v>>)
       [] c.t = "List" ->
            IF ~c.target.some /\ Len(c.channels) = 0 THEN <<"L","I","S","T">>
            ELSE IF ~c.target.some THEN WithPrefix(<<"L","I","S","T">>, <<ChannelsToString(c.channels)>>)
            ELSE WithPrefix(<<"L","I","S","T">>, <<ChannelsToString(c.channels), c.target.v>>)
       [] c.t = "Invite" -> WithPrefix(<<"I","N","V","I","T","E">>, <<c.nickname, ChannelToString(c.channel)>>)
       [] c.t = "Kick" ->
            IF ~c.comment.some
            THEN WithPrefix(<<"K","I","C","K">>, <<ChannelsToString(c.channels), StringsToString(c.users)>>)
            ELSE WithPrefix(<<"K","I","C","K">>, <<ChannelsToString(c.channels), StringsToString(c.users),
                                       c.comment.v>>)
       [] c.t = "Privmsg" ->
            WithPrefix(<<"P","R","I","V","M","S","G">>, <<RecipientsToString(c.recipients), c.message>>)
       [] c.t = "Notice" ->
            WithPrefix(<<"N","O","T","I","C","E">>, <<RecipientsToString(c.recipients), c.message>>)
       [] c.t = "Motd" ->
            IF ~c.target.some THEN <<"M","O","T","D">> ELSE WithPrefix(<<"M","O","T","D">>, <<c.target.v>>)
       [] c.t = "LUsers" ->
            IF ~c.mask.some /\ ~c.target.some THEN <<"L","U","S","E","R","S">>
            ELSE IF ~c.mask.some THEN WithPrefix(<<"L","U","S","E","R","S">>, <<c.target.v>>)
            ELSE IF ~c.target.some THEN WithPrefix(<<"L","U","S","E","R","S">>, <<c.mask.v>>)
            ELSE WithPrefix(<<"L","U","S","E","R","S">>, <<c.mask.v, c.target.v>>)
       [] c.t = "Version" ->
            IF ~c.target.some THEN <<"V","E","R","S","I","O","N">> ELSE WithPrefix(<<"V","E","R","S","I","O","N">>, <<c.target.v>>)
       [] c.t = "Stats" ->
            IF ~c.query.some THEN <<"S","T","A","T","S">>
            ELSE IF ~c.target.some THEN WithPrefix(<<"S","T","A","T","S">>, <<StatsQueryToString(c.query.v)>>)
            ELSE WithPrefix(<<"S","T","A","T","S">>, <<StatsQueryToString(c.query.v), c.target.v>>)
       [] c.t = "Links" ->
            IF ~c.mask.some /\ ~c.target.some THEN <<"L","I","N","K","S">>
            ELSE IF ~c.target.some THEN WithPrefix(<<"L","I","N","K","S">>, <<c.mask.v>>)
            ELSE IF ~c.mask.some THEN WithPrefix(<<"L","I","N","K","S">>, <<<<"*">>, c.target.v>>)
            ELSE WithPrefix(<<"L","I","N","K","S">>, <<c.target.v, c.mask.v>>)
       [] c.t = "Time" ->
            IF ~c.target.some THEN <<"T","I","M","E">> ELSE WithPrefix(<<"T","I","M","E">>, <<c.target.v>>)
       [] c.t = "Connect" ->
            IF ~c.remote.some THEN WithPrefix(<<"C","O","N","N","E","C","T">>, <<c.target, NumToString(c.port)>>)
            ELSE WithPrefix(<<"C","O","N","N","E","C","T">>, <<c.target, NumToString(c.port), c.remote.v>>)
       [] c.t = "Trace" ->
            IF ~c.target.some THEN <<"T","R","A","C","E">> ELSE WithPrefix(<<"T","R","A","C","E">>, <<c.target.v>>)
       [] c.t = "Admin" ->
            IF ~c.target.some THEN <<"A","D","M","I","N">> ELSE WithPrefix(<<"A","D","M","I","N">>, <<c.target.v>>)
       [] c.t = "Info" ->
            IF ~c.target.some THEN <<"I","N","F","O">> ELSE WithPrefix(<<"I","N","F","O">>, <<c.target.v>>)
       [] c.t = "ServList" ->
            IF ~c.mask.some /\ ~c.service_type.some THEN <<"S","E","R","V","L","I","S","T">>
            ELSE IF ~c.service_type.some THEN WithPrefix(<<"S","E","R","V","L","I","S","T">>, <<c.mask.v>>)
            ELSE IF ~c.mask.some THEN WithPrefix(<<"S","E","R","V","L","I","S","T">>, <<c.service_type.v>>)
            ELSE WithPrefix(<<"S","E","R","V","L","I","S","T">>, <<c.mask.v, c.service_type.v>>)
       [] c.t = "SQuery" ->
            WithPrefix(<<"S","Q","U","E","R","Y">>, <<RecipientToString(c.recipient), c.message>>)
       [] c.t = "Who" ->
            IF ~c.mask.some THEN <<"W","H","O">>
            ELSE IF ~c.op_only THEN WithPrefix(<<"W","H","O">>, <<c.mask.v>>)
            ELSE WithPrefix(<<"W","H","O">>, <<c.mask.v, <<"o">>>>)
       [] c.t = "WhoIs" ->
            IF ~c.target.some THEN WithPrefix(<<"W","H","O","I","S">>, <<c.mask>>)
            ELSE WithPrefix(<<"W","H","O","I","S">>, <<c.target.v, c.mask>>)
       [] c.t = "WhoWas" ->
            IF ~c.count.some /\ ~c.target.some
            THEN WithPrefix(<<"W","H","O","W","A","S">>, <<StringsToString(c.nicknames)>>)
            ELSE IF ~c.count.some
            THEN WithPrefix(<<"W","H","O","W","A","S">>, <<StringsToString(c.nicknames), c.target.v>>)
            ELSE IF ~c.target.some
            THEN WithPrefix(<<"W","H","O","W","A","S">>, <<StringsToString(c.nicknames), NumToString(c.count.v)>>)
            ELSE WithPrefix(<<"W","H","O","W","A","S">>, <<StringsToString(c.nicknames), NumToString(c.count.v),
                                         c.target.v>>)
       [] c.t = "Kill" -> WithPrefix(<<"K","I","L","L">>, <<c.nickname, c.comment>>)
       [] c.t = "Ping" ->
            IF ~c.from.some /\ ~c.to.some THEN <<"P","I","N","G">>
            ELSE IF ~c.from.some THEN WithPrefix(<<"P","I","N","G">>, <<SenderToString(c.to.v)>>)
            ELSE IF ~c.to.some THEN <<"P","I","N","G"," ",":">> \o SenderToString(c.from.v)
            ELSE WithPrefix(<<"P","I","N","G">>, <<SenderToString(c.from.v), SenderToString(c.to.v)>>)
       [] c.t = "Pong" ->
            IF ~c.to.some THEN WithPrefix(<<"P","O","N","G">>, <<SenderToString(c.from)>>)
            ELSE WithPrefix(<<"P","O","N","G">>, <<SenderToString(c.from), SenderToString(c.to.v)>>)
       [] c.t = "Error" -> WithPrefix(<<"E","R","R","O","R">>, <<c.message>>)
       [] c.t = "Away" ->
            IF ~c.message.some THEN <<"A","W","A","Y">> ELSE WithPrefix(<<"A","W","A","Y">>, <<c.message.v>>)
       [] c.t = "Rehash" -> <<"R","E","H","A","S","H">>
       [] c.t = "Die" -> <<"D","I","E">>
       [] c.t = "Restart" -> <<"R","E","S","T","A","R","T">>
       [] c.t = "Summon" ->
            IF ~c.target.some /\ ~c.channel.some THEN WithPrefix(<<"S","U","M","M","O","N">>, <<c.user>>)
            ELSE IF ~c.target.some
            THEN WithPrefix(<<"S","U","M","M","O","N">>, <<c.user, ChannelToString(c.channel.v)>>)
            ELSE IF ~c.channel.some THEN WithPrefix(<<"S","U","M","M","O","N">>, <<c.user, c.target.v>>)
            ELSE WithPrefix(<<"S","U","M","M","O","N">>, <<c.user, c.target.v, ChannelToString(c.channel.v)>>)
       [] c.t = "Users" ->
            IF ~c.target.some THEN <<"U","S","E","R","S">> ELSE WithPrefix(<<"U","S","E","R","S">>, <<c.target.v>>)
       [] c.t = "WallOps" -> WithPrefix(<<"W","A","L","L","O","P","S">>, <<c.message>>)
       [] c.t = "UserHost" ->
            LET r == WithPrefix(<<"U","S","E","R","H","O","S","T">>, <<StringsToString(c.nicknames)>>)
            IN IF r = Panic THEN Panic ELSE Replace(r, ",", SP)
       [] c.t = "IsOn" ->
            LET r == WithPrefix(<<"I","S","O","N">>, <<StringsToString(c.nicknames)>>)
            IN IF r = Panic THEN Panic ELSE Replace(r, ",", SP)

\* ------------------------------------------------------------------ Message

\* MessageBody::from_str
MessageBodyFromStr(raw) ==
  IF Len(raw) > 0 /\ raw[1] \in Upper
  THEN Try1(CommandFromStr(raw), LAMBDA a : [t |-> "Command", command |-> a])
  ELSE IF Len(raw) > 0 /\ raw[1] \in Digit
  THEN LET index == Find(raw, SP)
       IN IF index >= 0
          THEN Try2(ReplyTypeFromStr(Take(raw, index)),
                    MessageParamsFromStr(Drop(raw, index + 1)),
                    LAMBDA a, b : [t |-> "Reply", reply_type |-> a, params |-> b])
          ELSE Try1(ReplyTypeFromStr(raw),
                    LAMBDA a : [t |-> "Reply", reply_type |-> a, params |-> MessageParamsNew])
  ELSE ParseError("MessageBody")

\* From<MessageBody> for String
MessageBodyToString(message_body) ==
  IF message_body.t = "Command" THEN CommandToString(message_body.command)
  ELSE ReplyTypeToString(message_body.reply_type) \o <<SP>>
       \o MessageParamsToString(message_body.params)

\* Message::from_str with `.ok()` in place of `?` on the sender: a prefix
\* that is no Sender is dropped.
MessageFromStrLenient(raw0) ==
  LET raw == TrimEnd(raw0)
      has_sender == StartsWith(raw, COLON) /\ Contains(raw, SP)
      index == Find(raw, SP)
      parsed_sender == IF has_sender THEN SenderFromStr(Slice(raw, 1, index)) ELSE ParseError("none")
      raw_body == IF has_sender THEN Drop(raw, index + 1) ELSE raw
  IN Try1(MessageBodyFromStr(raw_body),
          LAMBDA b : [sender |-> IF parsed_sender.ok THEN Some(parsed_sender.val) ELSE None,
                      body |-> b])

\* Message::from_str
MessageFromStr(raw0) ==
  LET raw == TrimEnd(raw0)
      has_sender == StartsWith(raw, COLON) /\ Contains(raw, SP)
      index == Find(raw, SP)
      sender == IF has_sender
                THEN Try1(SenderFromStr(Slice(raw, 1, index)), LAMBDA a : Some(a))
                ELSE Ok(None)
      raw_body == IF has_sender THEN Drop(raw, index + 1) ELSE raw
  IN IF ~sender.ok THEN sender
     ELSE Try1(MessageBodyFromStr(raw_body), LAMBDA b : [sender |-> sender.val, body |-> b])

\* From<Message> for String
MessageToString(message) ==
  LET body == MessageBodyToString(message.body)
  IN IF body = Panic THEN Panic
     ELSE IF message.sender.some
     THEN <<COLON>> \o SenderToString(message.sender.v) \o <<SP>> \o body
     ELSE body

\* --------------------------------------------------------------- Connection

VARIABLES
  input,       \* every byte the peer sends over the life of the stream
  segments,    \* the lines input was put together from: [text, extra]
  wire,        \* bytes sent and not yet arrived at the reader
  rbuf,        \* bytes arrived at the reader and not yet taken by read_line
  closed,      \* the peer has closed the stream
  lastRead,    \* what the reader reported to the latest poll
  lastLine,    \* the bytes read_line put into the latest poll's buffer
  pollResult,  \* what the latest poll returned
  delivered,   \* the messages the polls returned, in order
  reads,       \* the buffers of the polls whose read_line returned Ok(len > 0)
  taken,       \* every byte the polls took from the reader, in order
  written,     \* the bytes the writer accepted
  calls,       \* the send calls: [data, result, accepted]
  subject,     \* the value a pure function is applied to
  parsed,      \* the parse of a line
  rendered,    \* its rendering
  reparsed,    \* the parse of the rendering
  stage        \* how far the pure computation has got

connVars == <<input, segments, wire, rbuf, closed, lastRead, lastLine, pollResult,
              delivered, reads, taken, written, calls>>
pureVars == <<subject, parsed, rendered, reparsed, stage>>
vars == <<input, segments, wire, rbuf, closed, lastRead, lastLine, pollResult,
          delivered, reads, taken, written, calls, subject, parsed, rendered, reparsed,
          stage>>

\* The most lines a stream holds, and the most send calls of a run.
MaxLines == 2
MaxSends == 2

\* Line texts the peer sends: two messages and one line no parser accepts.
LineTexts == {<<"D","I","E">>, <<":","a"," ","D","I","E">>, <<"?">>}
\* What follows a line's CR LF: nothing, a stray CR, a stray LF.
Extras == {<<>>, <<CR>>, <<LF>>}
\* The lines of a stream: each text is followed by CR LF and then by extra.
Segments == [text : LineTexts, extra : {<<>>}]
\* Messages only, with a stray CR or LF allowed after each CR LF.
MessageTexts == {t \in LineTexts : t # <<"?">>}
FramedSegments == [text : MessageTexts, extra : Extras]

RECURSIVE Concat(_)
Concat(segs) ==
  IF Len(segs) = 0 THEN <<>>
  ELSE Head(segs).text \o CRLF \o Head(segs).extra \o Concat(Tail(segs))

SegmentSeqs(S, n) == UNION {[1..k -> S] : k \in 0..n}

\* The poll results.
PollNone == [kind |-> "None"]
PollSome(message) == [kind |-> "Some", message |-> message]
PollPanic == [kind |-> "panic"]

Aborted == pollResult.kind = "panic"

InitPure ==
  /\ subject = <<>>
  /\ parsed = <<>>
  /\ rendered = <<>>
  /\ reparsed = <<>>
  /\ stage = "idle"

\* Connection::new over a stream that will carry the lines of segs.
InitConn(segs) ==
  /\ segments = segs
  /\ input = Concat(segs)
  /\ wire = Concat(segs)
  /\ rbuf = <<>>
  /\ closed = FALSE
  /\ lastRead = "none"
  /\ lastLine = <<>>
  /\ pollResult = [kind |-> "init"]
  /\ delivered = <<>>
  /\ reads = <<>>
  /\ taken = <<>>
  /\ written = <<>>
  /\ calls = <<>>

Init ==
  /\ \E segs \in SegmentSeqs(Segments, MaxLines) : InitConn(segs)
  /\ InitPure

\* The same connection at the moment every byte of the stream has arrived.
InitFramed ==
  /\ \E segs \in SegmentSeqs(FramedSegments, MaxLines) :
       /\ segments = segs
       /\ input = Concat(segs)
       /\ wire = <<>>
       /\ rbuf = Concat(segs)
  /\ closed = FALSE
  /\ lastRead = "none"
  /\ lastLine = <<>>
  /\ pollResult = [kind |-> "init"]
  /\ delivered = <<>>
  /\ reads = <<>>
  /\ taken = <<>>
  /\ written = <<>>
  /\ calls = <<>>
  /\ InitPure

\* The network delivers the next k bytes to the reader.
Arrive ==
  /\ ~Aborted
  /\ \E k \in 1..Len(wire) :
       /\ rbuf' = rbuf \o Take(wire, k)
       /\ wire' = Drop(wire, k)
  /\ UNCHANGED <<input, segments, closed, lastRead, lastLine, pollResult, delivered,
                 reads, taken, written, calls>>
  /\ UNCHANGED pureVars

\* The peer closes the stream after its last byte has arrived.
Close ==
  /\ ~Aborted
  /\ ~closed
  /\ wire = <<>>
  /\ closed' = TRUE
  /\ UNCHANGED <<input, segments, wire, rbuf, lastRead, lastLine, pollResult, delivered,
                 reads, taken, written, calls>>
  /\ UNCHANGED pureVars

\* A read_line that throws away what the reader holds behind the line it returns.
ReadLineDraining(buf, atEnd, fault) ==
  IF fault THEN [kind |-> "Error", buffer |-> <<>>, rest |-> buf]
  ELSE IF Contains(buf, LF)
  THEN [kind |-> "Ok", buffer |-> Take(buf, Find(buf, LF) + 1), rest |-> <<>>]
  ELSE IF atEnd THEN [kind |-> "Ok", buffer |-> buf, rest |-> <<>>]
  ELSE [kind |-> "WouldBlock", buffer |-> buf, rest |-> <<>>]

\* BufRead::read_line on a non-blocking reader holding buf, into the empty
\* String of poll: through the first LF if there is one; else, at the end of
\* the stream, whatever is left (Ok(0) when nothing is); else everything
\* buffered is moved into the String and the next fill reports WouldBlock.
\* fault: the reader fails with another error.
ReadLine(buf, atEnd, fault) ==
  IF fault THEN [kind |-> "Error", buffer |-> <<>>, rest |-> buf]
  ELSE IF Contains(buf, LF)
  THEN [kind |-> "Ok", buffer |-> Take(buf, Find(buf, LF) + 1),
        rest |-> Drop(buf, Find(buf, LF) + 1)]
  ELSE IF atEnd THEN [kind |-> "Ok", buffer |-> buf, rest |-> <<>>]
  ELSE [kind |-> "WouldBlock", buffer |-> buf, rest |-> <<>>]

\* The inner match of Connection::poll, on the result of buffer.parse::<Message>().
ParseMatch(result) == IF result.ok THEN PollSome(result.val) ELSE PollNone

\* A poll that treats WouldBlock like every other read error.
PollMatchAbortsOnWouldBlock(read) ==
  IF read.kind = "Ok"
  THEN IF Len(read.buffer) = 0 THEN PollPanic
       ELSE ParseMatch(MessageFromStr(read.buffer))
  ELSE PollPanic

\* A poll that takes the end of the stream for an idle stream.
PollMatchIgnoresEnd(read) ==
  IF read.kind = "Ok"
  THEN IF Len(read.buffer) = 0 THEN PollNone
       ELSE ParseMatch(MessageFromStr(read.buffer))
  ELSE IF read.kind = "WouldBlock" THEN PollNone
  ELSE PollPanic

\* The match of Connection::poll on the result of read_line.
PollMatch(read) ==
  IF read.kind = "Ok"
  THEN IF Len(read.buffer) = 0 THEN PollPanic
       ELSE ParseMatch(MessageFromStr(read.buffer))
  ELSE IF read.kind = "WouldBlock" THEN PollNone
  ELSE PollPanic

\* What the reader reported, for the record.
ReadKind(read) ==
  IF read.kind = "Ok" THEN IF Len(read.buffer) = 0 THEN "eof" ELSE "line"
  ELSE IF read.kind = "WouldBlock" THEN "wouldblock"
  ELSE "error"

\* The body of Connection::poll: what it does to the reader and what it returns.
PollConnection ==
  \E fault \in BOOLEAN :
    LET read == ReadLine(rbuf, closed /\ wire = <<>>, fault)
    IN /\ rbuf' = read.rest
       /\ lastRead' = ReadKind(read)
       /\ lastLine' = read.buffer
       /\ pollResult' = PollMatch(read)
       /\ delivered' = IF pollResult'.kind = "Some"
                       THEN Append(delivered, pollResult'.message) ELSE delivered
       /\ reads' = IF lastRead' = "line" THEN Append(reads, lastLine') ELSE reads
       /\ taken' = taken \o lastLine'

\* Connection::poll
Poll ==
  /\ ~Aborted
  /\ PollConnection
  /\ UNCHANGED <<input, segments, wire, closed, written, calls>>
  /\ UNCHANGED pureVars

\* Commands and raw lines the application sends.
SendCommands ==
  {[t |-> "Die"], [t |-> "Pong", from |-> SenderFromNickname(<<"m","e">>), to |-> None]}
SendRaws == {<<"h","i">>, <<"a"," ","b">>}

\* Write::write of data: Err, or Ok(n) with the first n bytes accepted.
WriteOutcomes(data) ==
  {[result |-> "Err", accepted |-> <<>>]}
    \cup {[result |-> "Ok", accepted |-> Take(data, n)] : n \in 0..Len(data)}

\* What send_command_raw returns for a write outcome: `?` on the write, then Ok(()).
SendResult(outcome) == IF outcome.result = "Err" THEN "Err" ELSE "Ok"

\* Connection::send_command_raw
SendCommandRaw(raw_command) ==
  /\ ~Aborted
  /\ Len(calls) < MaxSends
  /\ \E outcome \in WriteOutcomes(raw_command \o CRLF) :
       /\ written' = written \o outcome.accepted
       /\ calls' = Append(calls, [data |-> raw_command, result |-> SendResult(outcome),
                                  accepted |-> outcome.accepted])
  /\ UNCHANGED <<input, segments, wire, rbuf, closed, lastRead, lastLine, pollResult,
                 delivered, reads, taken>>
  /\ UNCHANGED pureVars

\* The application sends a raw line.
SendLine == \E raw_command \in SendRaws : SendCommandRaw(raw_command)

\* Connection::send_command
SendCommand ==
  \E command \in SendCommands :
    LET raw_command == CommandToString(command)
    IN /\ raw_command # Panic
       /\ SendCommandRaw(raw_command)

Next == Arrive \/ Close \/ Poll

Spec == Init /\ [][Next]_vars

NextFramed == Close \/ Poll

SpecFramed == InitFramed /\ [][NextFramed]_vars

NextSend == SendCommand \/ SendLine

InitSend == InitConn(<<>>) /\ InitPure

SpecSend == InitSend /\ [][NextSend]_vars

\* ------------------------------------------------- Message and Command text

\* Lines handed to Message::from_str: an optional sender prefix, a verb or a
\* reply code, a parameter text, and a line end.
LinePrefixes == {<<>>, <<":","n","!","u","@","h",".","c"," ">>}
LineVerbs == {<<"P","A","S","S">>, <<"N","I","C","K">>, <<"P","R","I","V","M","S","G">>, <<"M","O","D","E">>, <<"T","O","P","I","C">>, <<"J","O","I","N">>, <<"P","I","N","G">>, <<"Q","U","I","T">>,
              <<"0","0","1">>, <<"p","o","t","a","t","o">>}
LineParams == {<<"a">>, <<":",":",")">>, <<"#","c">>, <<"#","c"," ",":","h","i"," ","y","o","u">>, <<"#","c"," ",":",":",")">>, <<"a"," ","b">>, <<"#","c"," ",":">>, <<"a"," ","+","i"," ","x">>}
LineEnds == {<<>>, CRLF, <<LF>>}
MessageLines ==
  {p \o v \o <<SP>> \o a \o e : p \in LinePrefixes, v \in LineVerbs, a \in LineParams,
                                e \in LineEnds}
    \cup {p \o v \o e : p \in LinePrefixes, v \in LineVerbs, e \in LineEnds}
    \cup {x \o e : x \in {<<":","n">>, <<":","-","a"," ","D","I","E">>, <<":"," ","D","I","E">>, <<":","a",".","b"," ","D","I","E">>, <<":","n","@","h"," ","0","0","1">>, <<"0","0","1","1"," ","a">>,
                           <<"1","2"," ","a">>, <<"é">>, <<>>, <<" ","D","I","E">>, <<":","D","I","E">>, <<"0","0","1"," ">>},
                    e \in LineEnds}

InitMessage ==
  /\ InitConn(<<>>)
  /\ subject \in MessageLines
  /\ parsed = <<>>
  /\ rendered = <<>>
  /\ reparsed = <<>>
  /\ stage = "idle"

\* subject.parse::<Message>()
ParseLine ==
  /\ stage = "idle"
  /\ parsed' = MessageFromStr(subject)
  /\ stage' = IF parsed'.ok THEN "parsed" ELSE "rejected"
  /\ UNCHANGED <<subject, rendered, reparsed>>
  /\ UNCHANGED connVars

\* String::from(message) + "\r\n"
RenderMessage ==
  /\ stage = "parsed"
  /\ rendered' = MessageToString(parsed.val)
  /\ stage' = IF rendered' = Panic THEN "panic" ELSE "rendered"
  /\ UNCHANGED <<subject, parsed, reparsed>>
  /\ UNCHANGED connVars

\* (rendered + "\r\n").parse::<Message>()
ReparseMessage ==
  /\ stage = "rendered"
  /\ reparsed' = MessageFromStr(rendered \o CRLF)
  /\ stage' = "done"
  /\ UNCHANGED <<subject, parsed, rendered>>
  /\ UNCHANGED connVars

NextMessage == ParseLine \/ RenderMessage \/ ReparseMessage

SpecMessage == InitMessage /\ [][NextMessage]_vars

\* Constructed Command values: every combination of present and absent
\* optional fields of the variants below, over these field contents.
Texts == {<<"x">>, <<"a"," ","b">>, <<":","x">>, <<>>}
OptTexts == {None} \cup {Some(s) : s \in Texts}
OptMasks == {None, Some(<<"*",".","f","i">>)}
OptQueries == {None, Some(StatsQueryFromStr(<<"u">>).val)}
OptSenders == {None, Some(SenderFromNickname(<<"m","e">>))}
Commands ==
  {[t |-> "Pass", password |-> s] : s \in Texts}
    \cup {[t |-> "Quit", message |-> m] : m \in OptTexts}
    \cup {[t |-> "Away", message |-> m] : m \in OptTexts}
    \cup {[t |-> "Error", message |-> s] : s \in Texts}
    \cup {[t |-> "ServList", mask |-> m, service_type |-> s] : m \in OptTexts, s \in OptTexts}
    \cup {[t |-> "Who", mask |-> m, op_only |-> b] : m \in OptTexts, b \in BOOLEAN}
    \cup {[t |-> "Stats", query |-> q, target |-> m] : q \in OptQueries, m \in OptMasks}
    \cup {[t |-> "Links", mask |-> m, target |-> n] : m \in OptMasks, n \in OptMasks}
    \cup {[t |-> "Ping", from |-> f, to |-> o] : f \in OptSenders, o \in OptSenders}
    \cup {[t |-> "Pong", from |-> SenderFromNickname(<<"m","e">>), to |-> o] : o \in OptSenders}
    \cup {[t |-> "Privmsg", recipients |-> <<RecipientFromStr(<<"#","c">>).val>>, message |-> s] :
            s \in Texts}
    \cup {[t |-> "Die"], [t |-> "Rehash"], [t |-> "Restart"]}

InitCommand ==
  /\ InitConn(<<>>)
  /\ subject \in Commands
  /\ parsed = <<>>
  /\ rendered = <<>>
  /\ reparsed = <<>>
  /\ stage = "idle"

\* String::from(command)
RenderCommand ==
  /\ stage = "idle"
  /\ rendered' = CommandToString(subject)
  /\ stage' = IF rendered' = Panic THEN "panic" ELSE "rendered"
  /\ UNCHANGED <<subject, parsed, reparsed>>
  /\ UNCHANGED connVars

\* rendered.parse::<Command>()
ReparseCommand ==
  /\ stage = "rendered"
  /\ reparsed' = CommandFromStr(rendered)
  /\ stage' = "done"
  /\ UNCHANGED <<subject, parsed, rendered>>
  /\ UNCHANGED connVars

NextCommand == RenderCommand \/ ReparseCommand

SpecCommand == InitCommand /\ [][NextCommand]_vars

\* ------------------------------------------------------------- entity text

\* The grammar entities.
GrammarEntities ==
  {"Nickname", "Username", "Hostname", "Servername", "Host", "Channel", "ChannelKey",
   "TargetMask", "StatsQuery", "Sender", "Recipient", "Channels", "Nicknames"}

\* raw.parse::<E>()
EntityFromStr(entity, raw) ==
  CASE entity = "Nickname" -> NicknameFromStr(raw)
    [] entity = "Username" -> UsernameFromStr(raw)
    [] entity = "Hostname" -> HostnameFromStr(raw)
    [] entity = "Servername" -> ServernameFromStr(raw)
    [] entity = "Host" -> HostFromStr(raw)
    [] entity = "Channel" -> ChannelFromStr(raw)
    [] entity = "ChannelKey" -> ChannelKeyFromStr(raw)
    [] entity = "TargetMask" -> TargetMaskFromStr(raw)
    [] entity = "StatsQuery" -> StatsQueryFromStr(raw)
    [] entity = "Sender" -> SenderFromStr(raw)
    [] entity = "Recipient" -> RecipientFromStr(raw)
    [] entity = "Channels" -> ChannelsFromStr(raw)
    [] entity = "Nicknames" -> NicknamesFromStr(raw)
    [] entity = "ReplyType" -> ReplyTypeFromStr(raw)
    [] entity = "MessageParams" -> MessageParamsFromStr(raw)
    [] OTHER -> MessageFromStr(raw)

\* String::from(value)
EntityToString(entity, value) ==
  CASE entity \in {"Nickname", "Username", "Hostname", "Servername", "ChannelKey"} -> value
    [] entity = "Host" -> HostToString(value)
    [] entity = "Channel" -> ChannelToString(value)
    [] entity = "TargetMask" -> TargetMaskToString(value)
    [] entity = "StatsQuery" -> StatsQueryToString(value)
    [] entity = "Sender" -> SenderToString(value)
    [] entity = "Recipient" -> RecipientToString(value)
    [] entity = "Channels" -> ChannelsToString(value)
    [] entity = "Nicknames" -> StringsToString(value)
    [] OTHER -> ReplyTypeToString(value)

\* Texts handed to the parsers: names, addresses, channels, masks, user
\* forms, lists, numerics, parameter texts and lines, the empty text and
\* text with a character outside ASCII.
EntityTexts ==
  {<<>>, <<"é">>, <<"a","é">>, <<"#","é">>, <<"n">>, <<"n","-","1">>, <<"1","a">>, <<"a"," ","b">>, <<"a",".","b">>, <<"a","_","b",".","c">>, <<"a",".",".","b">>, <<"-","a">>,
   <<"1",".","2",".","3",".","4">>, <<"1",".","2",".","3",".","2","5","6">>, <<"0","1",".","2",".","3",".","4">>, <<"#","c">>, <<"&","c">>, <<"+","c">>, <<"!","A","B","C","D","E","c">>, <<"!","a","b","c","d","e","c">>, <<"#">>,
   <<"#","c",":","*",".","f","i">>, <<"#","c",":","x">>, <<"#","a",",","b">>, <<"#","*",".","f","i">>, <<"$","*",".","f","i">>, <<"$","a",".","b">>, <<"#","a",".","*">>, <<"l">>, <<"u">>, <<"x">>, <<"?">>,
   <<"l","u">>, <<"n","!","u","@","h",".","c">>, <<"n","!","u","@","1",".","2",".","3",".","4">>, <<"n","@","h">>, <<"n","!","u">>, <<"u","%","h">>, <<"u","%","h","@","s",".","c">>, <<"u","@","s",".","c">>, <<"u","%","1",".","2",".","3",".","4">>,
   <<"a","!","b","%","c">>, <<"n",",","m">>, <<"#","c",",","&","d">>, <<"n",",",",","m">>, <<",">>, <<"0","0","1">>, <<"4","0","4">>, <<"9","9","9">>, <<"+","1","2">>, <<"0","é","1">>,
   <<"a"," ","b"," ",":","c"," ","d">>, <<":">>, <<"D","I","E">>, <<"P","I","N","G"," ","a">>, <<":","n"," ","D","I","E">>, <<"0","0","1"," ","n"," ",":","h","i">>, <<"P","R","I","V","M","S","G"," ","#","c"," ",":","h","i"," ","y","o","u">>,
   <<"p","o","t","a","t","o">>, <<"N","I","C","K"," ","é">>, <<":","é"," ","D","I","E">>}

\* Values built from validated parts through the public variants and
\* conversions: Sender::from(servername), Sender::User { .. }, the Recipient
\* variants, and the ReplyType variants that carry a number.
ConstructedValues ==
  {[entity |-> "Sender", value |-> [t |-> "Server", name |-> ServernameFromStr(n).val]] :
     n \in {<<"a",".","b">>, <<"i","r","c">>, <<"1","a">>}}
    \cup {[entity |-> "Sender",
           value |-> [t |-> "User", nickname |-> NicknameFromStr(<<"n">>).val, user |-> u,
                      host |-> h]] :
            u \in {None, Some(UsernameFromStr(<<"u">>).val), Some(UsernameFromStr(<<"a","!","b">>).val)},
            h \in {None, Some(HostFromStr(<<"h",".","c">>).val), Some(HostFromStr(<<"1",".","2",".","3",".","4">>).val)}}
    \cup {[entity |-> "Recipient",
           value |-> [t |-> "UserHost", user |-> UsernameFromStr(u).val,
                      host |-> HostFromStr(<<"h",".","c">>).val]] : u \in {<<"u">>, <<"a","%","b">>}}
    \cup {[entity |-> "Recipient",
           value |-> [t |-> "NicknameUserHost", nickname |-> NicknameFromStr(<<"n">>).val,
                      user |-> UsernameFromStr(u).val, host |-> HostFromStr(<<"h",".","c">>).val]] :
            u \in {<<"u">>, <<"a","!","b">>}}
    \cup {[entity |-> "ReplyType", value |-> [variant |-> v, code |-> c]] :
            v \in {"PrvUnknown", "RplUnknown", "ErrUnknown"}, c \in {7, 250, 599, 1000}}

\* A text to parse, or a constructed value to render.
InitEntity ==
  /\ InitConn(<<>>)
  /\ subject \in [entity : GrammarEntities \cup {"ReplyType", "MessageParams", "Message"},
                  text : EntityTexts]
                 \cup [entity : {"ReplyType"}, text : [1..3 -> Digit]]
                 \cup ConstructedValues
  /\ parsed = <<>>
  /\ rendered = <<>>
  /\ reparsed = <<>>
  /\ stage = IF "text" \in DOMAIN subject THEN "idle" ELSE "constructed"

\* subject.text.parse::<E>()
ParseEntity ==
  /\ stage = "idle"
  /\ parsed' = EntityFromStr(subject.entity, subject.text)
  /\ stage' = IF parsed'.ok THEN "parsed" ELSE "rejected"
  /\ UNCHANGED <<subject, rendered, reparsed>>
  /\ UNCHANGED connVars

\* String::from(value) of the parsed or the constructed value
RenderEntity ==
  /\ stage \in {"parsed", "constructed"}
  /\ subject.entity \in GrammarEntities \cup {"ReplyType"}
  /\ rendered' = EntityToString(subject.entity,
                                IF stage = "parsed" THEN parsed.val ELSE subject.value)
  /\ stage' = "rendered"
  /\ UNCHANGED <<subject, parsed, reparsed>>
  /\ UNCHANGED connVars

\* rendered.parse::<E>()
ReparseEntity ==
  /\ stage = "rendered"
  /\ reparsed' = EntityFromStr(subject.entity, rendered)
  /\ stage' = "done"
  /\ UNCHANGED <<subject, parsed, rendered>>
  /\ UNCHANGED connVars

SpecEntity == InitEntity /\ [][ParseEntity \/ RenderEntity \/ ReparseEntity]_vars

\* ------------------------------------------------------ MessageParams values

\* Positions at which the values pushed vary; further values are "a" or a
\* value with a space.
MaxVaried == 2

\* Values handed to push.
PushValues(params) ==
  IF Len(params.args) < MaxVaried THEN {<<"a">>, <<>>, <<":","x">>, <<"b"," ","c">>} ELSE {<<"a">>, <<"b"," ","c">>}

\* Parameter bodies handed to MessageParams::from_str: short ones, and ones
\* of 13 or 14 tokens followed by a tail.
ParamTexts ==
  {<<>>, <<"a">>, <<"a"," ","b">>, <<" ","a"," "," ","b"," ">>, <<":">>, <<":","a"," ","b">>, <<"a"," ",":">>, <<"a"," ",":","b"," ","c">>, <<"a"," "," ",":","b"," "," ","c"," ">>, <<"a",":","b"," ",":","c">>,
   <<"a"," ",":",":","b">>, <<"a"," ",":"," ","b">>, <<"é"," ",":","é"," ","é">>}
    \cup {[i \in 1..(2 * n) |-> IF i % 2 = 1 THEN "a" ELSE SP] \o tail :
            n \in {13, 14},
            tail \in {<<>>, <<"b">>, <<"b"," ","c">>, <<":","b"," ","c">>, <<" ","b">>, <<":">>, <<"b"," ",":","c">>, <<" ",":","b">>, <<"b"," ","c"," ","d">>}}

InitParams ==
  /\ InitConn(<<>>)
  /\ subject = <<>>
  /\ parsed = <<>>
  /\ rendered = <<>>
  /\ reparsed = <<>>
  /\ stage = "idle"

\* MessageParams::new()
NewParams ==
  /\ stage = "idle"
  /\ subject' = MessageParamsNew
  /\ parsed' = [op |-> "new"]
  /\ stage' = "built"
  /\ UNCHANGED <<rendered, reparsed>>
  /\ UNCHANGED connVars

\* raw.parse::<MessageParams>()
ParseParams ==
  /\ stage = "idle"
  /\ \E raw \in ParamTexts :
       /\ subject' = MessageParamsFromStr(raw).val
       /\ parsed' = [op |-> "parse", raw |-> raw]
  /\ stage' = "built"
  /\ UNCHANGED <<rendered, reparsed>>
  /\ UNCHANGED connVars

\* params.push(value)
PushParam ==
  /\ stage = "built"
  /\ \E value \in PushValues(subject) :
       /\ subject' = Push(subject, value).params
       /\ parsed' = [op |-> "push", value |-> value, before |-> subject,
                     ok |-> Push(subject, value).ok]
  /\ UNCHANGED <<rendered, reparsed, stage>>
  /\ UNCHANGED connVars

\* String::from(params)
RenderParams ==
  /\ stage = "built"
  /\ rendered' = MessageParamsToString(subject)
  /\ stage' = "rendered"
  /\ UNCHANGED <<subject, parsed, reparsed>>
  /\ UNCHANGED connVars

SpecParams == InitParams /\ [][NewParams \/ ParseParams \/ PushParam \/ RenderParams]_vars

\* ------------------------------------------------------------------ Client

\* The most bytes a write leaves unaccepted when it returns Ok.
MaxShort == 1

\* The AuthToken of the client, with and without a password.
AuthTokens ==
  [nickname : {NicknameFromStr(<<"m","e">>).val}, username : {UsernameFromStr(<<"u">>).val},
   mode : {0}, realname : {<<"R"," ","N">>}, password : {None, Some(<<"p","w">>)}]

\* The commands of Client::authenticate in the order sent: AuthToken::pass
\* when there is a password, AuthToken::nick, AuthToken::user.
Registration(auth_token) ==
  (IF auth_token.password.some
   THEN <<[t |-> "Pass", password |-> auth_token.password.v]>> ELSE <<>>)
    \o <<[t |-> "Nick", nickname |-> auth_token.nickname],
         [t |-> "User", username |-> auth_token.username, mode |-> auth_token.mode,
          realname |-> auth_token.realname]>>

\* Write::write of data on the client's connection: Err, or Ok(n) with at
\* most MaxShort bytes left out.
ShortWrites(data) ==
  {o \in WriteOutcomes(data) : o.result = "Err" \/ Len(o.accepted) >= Len(data) - MaxShort}

\* send_command(..).expect(..) for each command in turn: the runs of the
\* writes, [written, calls, ok]; ok is FALSE when an expect panicked.
RECURSIVE SendEach(_, _)
SendEach(commands, run) ==
  IF Len(commands) = 0 THEN {run}
  ELSE UNION {
    LET sent == [written |-> run.written \o outcome.accepted,
                 calls |-> Append(run.calls, [data |-> CommandToString(Head(commands)),
                                              result |-> SendResult(outcome),
                                              accepted |-> outcome.accepted]),
                 ok |-> outcome.result # "Err"]
    IN IF sent.ok THEN SendEach(Tail(commands), sent) ELSE {sent} :
    outcome \in ShortWrites(CommandToString(Head(commands)) \o CRLF)}

\* Lines the server sends to the client.
ClientLines == {<<"P","I","N","G"," ","a",".","b"," ","m","e">>, <<"P","I","N","G"," ",":","a",".","b">>, <<"P","I","N","G"," ","a",".","b">>, <<"D","I","E">>, <<"0","0","1"," ","m","e"," ",":","h","i">>, <<"?">>}

\* Client { connection, auth_token } over a stream whose bytes have arrived,
\* before authenticate.
InitClient ==
  /\ \E segs \in SegmentSeqs([text : ClientLines, extra : {<<>>}], MaxLines) :
       /\ segments = segs
       /\ input = Concat(segs)
       /\ wire = <<>>
       /\ rbuf = Concat(segs)
  /\ closed = FALSE
  /\ lastRead = "none"
  /\ lastLine = <<>>
  /\ pollResult = [kind |-> "init"]
  /\ delivered = <<>>
  /\ reads = <<>>
  /\ taken = <<>>
  /\ written = <<>>
  /\ calls = <<>>
  /\ subject \in AuthTokens
  /\ parsed = <<>>
  /\ rendered = <<>>
  /\ reparsed = <<>>
  /\ stage = "connecting"

\* Client::authenticate, called by Client::connect
Authenticate ==
  /\ stage = "connecting"
  /\ \E run \in SendEach(Registration(subject), [written |-> <<>>, calls |-> <<>>, ok |-> TRUE]) :
       /\ written' = written \o run.written
       /\ calls' = calls \o run.calls
       /\ stage' = IF run.ok THEN "registered" ELSE "panic"
  /\ UNCHANGED <<input, segments, wire, rbuf, closed, lastRead, lastLine, pollResult,
                 delivered, reads, taken, subject, parsed, rendered, reparsed>>

\* Client::poll with handle_command and handle_command_ping; rendered holds
\* the bytes this poll wrote.
ClientPoll ==
  /\ stage = "registered"
  /\ ~Aborted
  /\ PollConnection
  /\ IF /\ pollResult'.kind = "Some"
        /\ pollResult'.message.body.t = "Command"
        /\ pollResult'.message.body.command.t = "Ping"
     THEN LET pong == [t |-> "Pong", to |-> pollResult'.message.body.command.from,
                       from |-> SenderFromNickname(subject.nickname)]
          IN \E outcome \in ShortWrites(CommandToString(pong) \o CRLF) :
               /\ written' = written \o outcome.accepted
               /\ calls' = Append(calls, [data |-> CommandToString(pong),
                                          result |-> SendResult(outcome),
                                          accepted |-> outcome.accepted])
               /\ rendered' = outcome.accepted
     ELSE /\ written' = written
          /\ calls' = calls
          /\ rendered' = <<>>
  /\ UNCHANGED <<input, segments, wire, closed, subject, parsed, reparsed, stage>>

SpecClient == InitClient /\ [][Authenticate \/ ClientPoll \/ Close]_vars

\* -------------------------------------------------------------- Dispatcher

\* The most reply listeners registered and the most replies handled in a run.
MaxListeners == 3
MaxReplies == 3

\* The replies handed to handle_reply: a reply type and a message.
Replies == {<<"RplWelcome", "Message 1">>, <<"RplYourHost", "Message 2">>}

\* A while loop of handle_reply that steps past the listener after a removed one.
RECURSIVE HandleReplyLoopSkipping(_, _, _, _)
HandleReplyLoopSkipping(reply_listeners, i, reply, invoked) ==
  IF i < Len(reply_listeners)
  THEN LET listener == reply_listeners[i + 1]
       IN IF reply \in listener.keeps
          THEN HandleReplyLoopSkipping(reply_listeners, i + 1, reply,
                                       Append(invoked, [id |-> listener.id, returned |-> TRUE]))
          ELSE HandleReplyLoopSkipping(Take(reply_listeners, i) \o Drop(reply_listeners, i + 1),
                                       i + 1, reply,
                                       Append(invoked, [id |-> listener.id, returned |-> FALSE]))
  ELSE [reply_listeners |-> reply_listeners, invoked |-> invoked]

\* The while loop of Dispatcher::handle_reply.  A listener is [id, keeps]:
\* its place in the order of registration and the replies it returns true
\* for.  invoked: the calls made, in order, with what each returned.
RECURSIVE HandleReplyLoop(_, _, _, _)
HandleReplyLoop(reply_listeners, i, reply, invoked) ==
  IF i < Len(reply_listeners)
  THEN LET listener == reply_listeners[i + 1]
       IN IF reply \in listener.keeps
          THEN HandleReplyLoop(reply_listeners, i + 1, reply,
                               Append(invoked, [id |-> listener.id, returned |-> TRUE]))
          ELSE HandleReplyLoop(Take(reply_listeners, i) \o Drop(reply_listeners, i + 1),
                               i, reply,
                               Append(invoked, [id |-> listener.id, returned |-> FALSE]))
  ELSE [reply_listeners |-> reply_listeners, invoked |-> invoked]

\* Dispatcher::new.  subject: reply_listeners; parsed: the latest
\* handle_reply, [reply, before, invoked]; rendered: every handle_reply so
\* far; reparsed: the number of listeners registered so far.
InitDispatcher ==
  /\ InitConn(<<>>)
  /\ subject = <<>>
  /\ parsed = <<>>
  /\ rendered = <<>>
  /\ reparsed = 0
  /\ stage = "dispatcher"

\* Dispatcher::register_reply_listener
RegisterReplyListener ==
  /\ stage = "dispatcher"
  /\ reparsed < MaxListeners
  /\ \E keeps \in SUBSET Replies :
       subject' = Append(subject, [id |-> reparsed + 1, keeps |-> keeps])
  /\ reparsed' = reparsed + 1
  /\ UNCHANGED <<parsed, rendered, stage>>
  /\ UNCHANGED connVars

\* Dispatcher::handle_reply
HandleReply ==
  /\ stage = "dispatcher"
  /\ Len(rendered) < MaxReplies
  /\ \E reply \in Replies :
       /\ subject' = HandleReplyLoop(subject, 0, reply, <<>>).reply_listeners
       /\ parsed' = [reply |-> reply, before |-> subject,
                     invoked |-> HandleReplyLoop(subject, 0, reply, <<>>).invoked]
       /\ rendered' = Append(rendered, parsed')
  /\ UNCHANGED <<reparsed, stage>>
  /\ UNCHANGED connVars

SpecDispatcher == InitDispatcher /\ [][RegisterReplyListener \/ HandleReply]_vars

\* ------------------------------------------------------------ the main loop

\* The most complete lines the reader holds unread, and the most lines typed
\* at the terminal in a run.
MaxBuffered == 2
MaxTyped == 2

\* main, at the top of its loop: subject is the terminal's channel, reparsed
\* the number of lines the stdin thread has sent, stage the loop's position.
InitLoop ==
  /\ InitConn(<<>>)
  /\ subject = <<>>
  /\ parsed = <<>>
  /\ rendered = <<>>
  /\ reparsed = 0
  /\ stage = "poll"

\* The server sends a line, and it arrives at the reader.
ServerSends ==
  /\ stage \notin {"exit", "panic"}
  /\ Len(SelectSeq(rbuf, LAMBDA c : c = LF)) < MaxBuffered
  /\ \E text \in LineTexts : rbuf' = rbuf \o text \o CRLF
  /\ UNCHANGED <<input, segments, wire, closed, lastRead, lastLine, pollResult, delivered,
                 reads, taken, written, calls>>
  /\ UNCHANGED pureVars

\* The thread of Terminal::new: read_line from stdin, tx.send(buffer).
TypeLine ==
  /\ stage \notin {"exit", "panic"}
  /\ reparsed < MaxTyped
  /\ \E text \in {<<"D","I","E">>, <<"h","i">>} : subject' = Append(subject, text \o <<LF>>)
  /\ reparsed' = reparsed + 1
  /\ UNCHANGED <<parsed, rendered, stage>>
  /\ UNCHANGED connVars

\* `if connection.borrow_mut().poll() { continue; }`: a poll that read a line
\* returns true and the loop starts over; one that met WouldBlock returns
\* false and the loop goes on to the terminal.
LoopPoll ==
  /\ stage = "poll"
  /\ \E fault \in BOOLEAN :
       LET read == ReadLine(rbuf, FALSE, fault)
       IN /\ rbuf' = read.rest
          /\ lastRead' = ReadKind(read)
          /\ lastLine' = read.buffer
          /\ pollResult' = [kind |-> "bool", value |-> lastRead' = "line"]
          /\ stage' = IF lastRead' = "line" THEN "poll"
                      ELSE IF lastRead' = "wouldblock" THEN "terminal"
                      ELSE "panic"
  /\ UNCHANGED <<input, segments, wire, closed, delivered, reads, taken, written, calls>>
  /\ UNCHANGED <<subject, parsed, rendered, reparsed>>

\* `if let Some(mut input) = terminal.read() { input.pop();
\* connection.borrow_mut().send_command_raw(input)?; }`: try_recv on the
\* channel; a line taken loses its newline and is written with CR LF; an Err
\* of the write leaves main.
LoopTerminal ==
  /\ stage = "terminal"
  /\ IF subject = <<>>
     THEN /\ stage' = "sleep"
          /\ UNCHANGED <<subject, written, calls>>
     ELSE LET line == Take(Head(subject), Len(Head(subject)) - 1)
          IN \E outcome \in ShortWrites(line \o CRLF) :
               /\ subject' = Tail(subject)
               /\ written' = written \o outcome.accepted
               /\ calls' = Append(calls, [data |-> line, result |-> SendResult(outcome),
                                          accepted |-> outcome.accepted])
               /\ stage' = IF outcome.result = "Err" THEN "exit" ELSE "sleep"
  /\ UNCHANGED <<input, segments, wire, rbuf, closed, lastRead, lastLine, pollResult,
                 delivered, reads, taken>>
  /\ UNCHANGED <<parsed, rendered, reparsed>>

\* thread::sleep(Duration::from_millis(100)), and back to the top of the loop.
LoopSleep ==
  /\ stage = "sleep"
  /\ stage' = "poll"
  /\ UNCHANGED <<subject, parsed, rendered, reparsed>>
  /\ UNCHANGED connVars

SpecLoop ==
  InitLoop /\ [][ServerSends \/ TypeLine \/ LoopPoll \/ LoopTerminal \/ LoopSleep]_vars

\* The main thread is never blocked: poll and try_recv do not wait, and the
\* sleep ends.  Nothing is assumed of the server or of the user.
SpecLoopFair == SpecLoop /\ WF_vars(LoopPoll \/ LoopTerminal \/ LoopSleep)

\* ------------------------------------------------- Display for ParseError

\* The most nested calls of fmt the stack of the thread holds.
MaxStack == 4

\* ParseError::new(struct_name), for the names the parsers pass.
InitDisplay ==
  /\ InitConn(<<>>)
  /\ subject \in {ParseError(struct_name) :
                    struct_name \in {"Channel", "ChannelID", "ChannelKey", "ChannelName",
                                     "ChannelType", "Command", "CommandArgs", "Host",
                                     "HostMask", "Hostname", "Key", "KeywordList",
                                     "MessageBody", "MessageParams", "MsgTo", "Nickname",
                                     "Recipient", "Reply", "ReplyType", "Sender",
                                     "ServerMask", "Servername", "StatsQuery", "TargetMask",
                                     "TestStruct", "User", "Username"}}
  /\ parsed = <<>>
  /\ rendered = <<>>
  /\ reparsed = 0
  /\ stage = "error"

\* format!("{}", error): the first call of <ParseError as Display>::fmt, on
\* an empty formatter.  reparsed counts the calls of fmt on the stack.
FormatError ==
  /\ stage = "error"
  /\ stage' = "fmt"
  /\ reparsed' = 1
  /\ UNCHANGED <<subject, parsed, rendered>>
  /\ UNCHANGED connVars

\* <ParseError as Display>::fmt: write!(f, "Unable to parse component: {}",
\* self) writes the literal piece and formats the argument, self, with
\* Display: fmt calls itself before it returns, until the stack is used up.
DisplayFmt ==
  /\ stage = "fmt"
  /\ rendered' = Append(rendered, "Unable to parse component: ")
  /\ IF reparsed < MaxStack
     THEN reparsed' = reparsed + 1 /\ stage' = "fmt"
     ELSE reparsed' = reparsed /\ stage' = "overflow"
  /\ UNCHANGED <<subject, parsed>>
  /\ UNCHANGED connVars

SpecDisplay == InitDisplay /\ [][FormatError \/ DisplayFmt]_vars

\* ------------------------------------------------------------------ Claims

\* C1: a stream of the serialized messages M1..Mn, each followed by CR LF and
\* possibly by a stray CR or LF, is delivered by sequential polls as
\* Some(M1), ..., Some(Mn) in that order; once the reader is drained, a poll
\* of the idle stream returns None and a poll of the ended stream aborts.
C1_FramedStreamDelivered ==
  /\ rbuf = <<>> =>
       delivered = [i \in 1..Len(segments) |-> MessageFromStr(segments[i].text).val]
  /\ (rbuf = <<>> /\ lastRead = "wouldblock") => pollResult = PollNone
  /\ (rbuf = <<>> /\ lastRead = "eof") => pollResult = PollPanic

\* C2: polls deliver the messages of the lines received, one per poll, in
\* the order received, none skipped, duplicated or reordered: once every byte
\* of the stream has been taken, the messages delivered are exactly the
\* messages of the stream's lines, in order.
C2_InOrderNoneSkipped ==
  /\ Len(delivered) <= Len(reads)
  /\ (wire = <<>> /\ rbuf = <<>>) =>
       LET good == SelectSeq(Split(input, {LF}), LAMBDA l : MessageFromStr(l).ok)
       IN delivered = [i \in 1..Len(good) |-> MessageFromStr(good[i]).val]

\* C3: a send call returns Ok only if the writer has accepted the whole line
\* followed by exactly one CR LF, and returns the error of a writer that
\* reported one.
C3_OkMeansWholeLine ==
  \A k \in 1..Len(calls) :
    calls[k].result = "Ok" => calls[k].accepted = calls[k].data \o CRLF

\* C4: the bytes the writer has received are the lines of the send calls that
\* returned Ok, each followed by CR LF, concatenated in call order.
C4_WritesInCallOrder ==
  LET sent == SelectSeq(calls, LAMBDA c : c.result = "Ok")
  IN written = Join([k \in 1..Len(sent) |-> sent[k].data \o CRLF], <<>>)

\* C5: a poll that reads a complete line that fails to parse returns None and
\* takes exactly that line: every byte behind it is still in the stream, in
\* order, and the messages delivered are those of the lines read that parse,
\* so the lines that follow are delivered as if the bad line had not been sent.
C5_BadLineDropped ==
  /\ (lastRead = "line" /\ ~MessageFromStr(lastLine).ok) => pollResult = PollNone
  /\ taken \o rbuf \o wire = input
  /\ LET good == SelectSeq(reads, LAMBDA l : MessageFromStr(l).ok)
     IN delivered = [i \in 1..Len(good) |-> MessageFromStr(good[i]).val]

\* A bad line was read whole and dropped, and the poll after it delivered the
\* message of the line that followed.
C5_Witness ==
  /\ Len(reads) >= 2
  /\ reads[Len(reads) - 1] = <<"?">> \o CRLF
  /\ lastRead = "line"
  /\ lastLine = <<"D","I","E">> \o CRLF
  /\ pollResult.kind = "Some"
  /\ delivered[Len(delivered)] = MessageFromStr(<<"D","I","E">>).val

\* C6: a poll to which the reader reported WouldBlock, with no data or with
\* part of a line, returned None: it did not abort.
C6_WouldBlockReturnsNone ==
  lastRead = "wouldblock" => pollResult = PollNone

\* The reader reported WouldBlock after handing over part of a line.
C6_Witness ==
  /\ lastRead = "wouldblock"
  /\ lastLine = <<"D","I">>
  /\ pollResult = PollNone

\* C7: a poll to which the reader reported the end of the stream (a read of
\* length zero) or an error other than WouldBlock aborted: it returned neither
\* None nor a message.
C7_EndOrErrorAborts ==
  lastRead \in {"eof", "error"} => pollResult = PollPanic

\* The peer closed the stream, and the poll that read its end aborted.
C7_Witness ==
  /\ closed
  /\ lastRead = "eof"
  /\ Aborted
  /\ Len(delivered) > 0

\* C8: a Message parsed from a line, rendered, followed by CR LF and parsed
\* again is the same Message.
C8_MessageRoundTrip ==
  /\ stage # "panic"
  /\ stage = "done" => reparsed = Ok(parsed.val)

\* C9: a constructed Command, rendered and parsed as a Command, is the same
\* Command.
C9_CommandRoundTrip ==
  stage = "done" => reparsed = Ok(subject)

\* C10: rendering a constructed Command returns a string: it never aborts.
C10_RenderTotal ==
  stage # "idle" => rendered # Panic

\* C11: for every text accepted by the parser of a grammar entity, with t the
\* parsed value, parsing the rendering of t returns Ok(t).
C11_EntityRoundTrip ==
  (stage = "done" /\ "text" \in DOMAIN subject /\ subject.entity \in GrammarEntities)
    => reparsed = Ok(parsed.val)

C11_Witness ==
  /\ stage = "done"
  /\ "text" \in DOMAIN subject
  /\ subject.entity = "Sender"
  /\ parsed.val.t = "User"
  /\ parsed.val.user.some
  /\ reparsed = Ok(parsed.val)

\* C12: every value of a grammar entity that can be constructed renders to a
\* text that the entity's parser accepts.
C12_RenderedIsParseable ==
  (stage = "done" /\ "value" \in DOMAIN subject /\ subject.entity \in GrammarEntities)
    => reparsed.ok

C14_FifteenParameters ==
  (stage = "built" /\ parsed.op = "push") =>
     /\ (Len(parsed.before.args) < 15 /\ ~parsed.before.has_space
           /\ ~Contains(parsed.value, SP))
          => (parsed.ok /\ subject.args = Append(parsed.before.args, parsed.value))
     /\ Len(parsed.before.args) >= 15 => (~parsed.ok /\ subject = parsed.before)

C14_Witness ==
  /\ stage = "built"
  /\ parsed.op = "push"
  /\ parsed.before.args = [i \in 1..15 |-> <<"a">>]
  /\ parsed.value = <<"a">>
  /\ ~parsed.ok
  /\ subject.args = [i \in 1..15 |-> <<"a">>]

\* C15: a parameter containing a space can only be the final one: a push
\* after a successful push of a value with a space is rejected, and in every
\* MessageParams reached through new, push or parse the length is at most 15,
\* no parameter other than the last contains a space, and has_space is true
\* exactly when the last parameter contains a space.
C15_SpaceOnlyInLast ==
  stage \in {"built", "rendered"} =>
     /\ Len(subject.args) <= 15
     /\ \A i \in 1..(Len(subject.args) - 1) : ~Contains(subject.args[i], SP)
     /\ subject.has_space <=>
          (Len(subject.args) > 0 /\ Contains(subject.args[Len(subject.args)], SP))
     /\ (parsed.op = "push" /\ parsed.before.has_space)
          => (~parsed.ok /\ subject = parsed.before)

C15_Witness ==
  /\ stage = "built"
  /\ parsed.op = "push"
  /\ parsed.before.args = <<<<"a">>, <<"b"," ","c">>>>
  /\ parsed.before.has_space
  /\ ~parsed.ok
  /\ subject = parsed.before

\* C16: MessageParams parse splits the body on spaces, skips the empty tokens
\* of runs of spaces, stops at the first token that begins with ':' and takes
\* everything after that ':' as the final parameter, and once 14 parameters
\* are accumulated takes the remainder (a leading ':' stripped) as the 15th;
\* the result never has more than 15 parameters.
C16_ParseTokens ==
  (stage = "built" /\ parsed.op = "parse") =>
     LET RECURSIVE Tokens(_, _)
         Tokens(rest, args) ==
           IF rest = <<>> THEN args
           ELSE IF Len(args) = 14
           THEN Append(args, IF rest[1] = COLON THEN Tail(rest) ELSE rest)
           ELSE IF rest[1] = SP THEN Tokens(Tail(rest), args)
           ELSE IF rest[1] = COLON THEN Append(args, Tail(rest))
           ELSE IF Find(rest, SP) < 0 THEN Append(args, rest)
           ELSE Tokens(Drop(rest, Find(rest, SP) + 1), Append(args, Take(rest, Find(rest, SP))))
     IN /\ subject.args = Tokens(parsed.raw, <<>>)
        /\ Len(subject.args) <= 15

C16_Witness ==
  /\ stage = "built"
  /\ parsed.op = "parse"
  /\ Len(subject.args) = 15
  /\ subject.args[14] = <<"a">>
  /\ subject.args[15] = <<"b"," ","c"," ","d">>

\* C17 as stated: MessageParams render emits the parameters in order
\* separated by single spaces, a ':' before a parameter that contains a
\* space, a final empty parameter as a bare ':', and every other parameter
\* verbatim.
C17_RenderVerbatim ==
  stage = "rendered" =>
     rendered = Join([i \in 1..Len(subject.args) |->
                        IF subject.args[i] = <<>> /\ i = Len(subject.args) THEN <<COLON>>
                        ELSE IF Contains(subject.args[i], SP) THEN <<COLON>> \o subject.args[i]
                        ELSE subject.args[i]], <<SP>>)

\* C17 amended: as C17, with an empty parameter that is not the final one
\* emitted as '*'.
C17_RenderRule ==
  stage = "rendered" =>
     rendered = Join([i \in 1..Len(subject.args) |->
                        IF subject.args[i] = <<>>
                        THEN (IF i = Len(subject.args) THEN <<COLON>> ELSE <<"*">>)
                        ELSE IF Contains(subject.args[i], SP) THEN <<COLON>> \o subject.args[i]
                        ELSE subject.args[i]], <<SP>>)

C17_Witness ==
  /\ stage = "rendered"
  /\ subject.args = <<<<>>, <<>>>>
  /\ rendered = <<"*"," ",":">>

\* C18: on connecting, the Client writes the registration commands exactly
\* once each and in order, PASS first exactly when a password is configured,
\* then NICK, then USER, and nothing else until a message is received.
C18_RegistrationWritten ==
  (stage = "registered" /\ delivered = <<>>) =>
     written = (IF subject.password.some
                THEN <<"P","A","S","S"," ">> \o subject.password.v \o CRLF ELSE <<>>)
               \o <<"N","I","C","K"," ">> \o subject.nickname \o CRLF
               \o <<"U","S","E","R"," ">> \o subject.username \o <<" ","0"," ","*"," ",":">> \o subject.realname \o CRLF

\* C19: a poll that received a PING has written, before it returns, exactly
\* one PONG whose first parameter is the client's nickname and whose second
\* is the PING's originator; a poll that received anything else has written
\* nothing.
C19_PingAnsweredOnce ==
  (stage = "registered" /\ pollResult.kind \in {"Some", "None"}) =>
     IF /\ pollResult.kind = "Some"
        /\ pollResult.message.body.t = "Command"
        /\ pollResult.message.body.command.t = "Ping"
     THEN /\ pollResult.message.body.command.from.some
          /\ rendered = <<"P","O","N","G"," ">> \o subject.nickname \o <<SP>>
                        \o SenderToString(pollResult.message.body.command.from.v) \o CRLF
     ELSE rendered = <<>>

\* C20: handle_reply invokes every registered reply listener exactly once,
\* in registration order; a listener that returns false is unregistered and
\* never invoked by a later handle_reply; the listeners that return true stay
\* registered in their original relative order.
C20_ListenersOnceInOrder ==
  (stage = "dispatcher" /\ Len(rendered) > 0) =>
     /\ [k \in 1..Len(parsed.invoked) |-> parsed.invoked[k].id]
          = [k \in 1..Len(parsed.before) |-> parsed.before[k].id]
     /\ \A k \in 1..(Len(parsed.before) - 1) : parsed.before[k].id < parsed.before[k + 1].id
     /\ \A k \in 1..Len(parsed.invoked) :
          parsed.invoked[k].returned = (parsed.reply \in parsed.before[k].keeps)
     /\ \A a \in 1..Len(rendered) : \A b \in (a + 1)..Len(rendered) :
          \A k \in 1..Len(rendered[a].invoked) :
            ~rendered[a].invoked[k].returned =>
               \A j \in 1..Len(rendered[b].invoked) :
                 rendered[b].invoked[j].id # rendered[a].invoked[k].id
     /\ Len(subject) >= Len(SelectSeq(parsed.before, LAMBDA l : parsed.reply \in l.keeps))
     /\ SubSeq(subject, 1, Len(SelectSeq(parsed.before, LAMBDA l : parsed.reply \in l.keeps)))
          = SelectSeq(parsed.before, LAMBDA l : parsed.reply \in l.keeps)

C20_Witness ==
  /\ stage = "dispatcher"
  /\ Len(rendered) = 2
  /\ Len(rendered[1].before) = 3
  /\ [k \in 1..3 |-> rendered[1].invoked[k].returned] = <<FALSE, FALSE, TRUE>>
  /\ Len(rendered[2].invoked) = 1
  /\ rendered[2].invoked[1].id = 3


C22_OutOfRangeRejected ==
  ("text" \in DOMAIN subject /\ subject.entity = "ReplyType" /\ stage # "idle"
     /\ \/ subject.text \notin [1..3 -> Digit]
        \/ DigitsVal(subject.text) \in {0} \cup (100..199) \cup (600..999))
    => stage = "rejected"


\* C23: the rendering of a reply body is the three-digit code alone when the
\* parameter list is empty, and the code, one space and the rendered
\* parameters otherwise (after ":sender " when the message has a sender).
C23_ReplyRendering ==
  (stage \in {"rendered", "done"} /\ parsed.val.body.t = "Reply")
    => LET body == parsed.val.body
           prefix == IF parsed.val.sender.some
                     THEN <<COLON>> \o SenderToString(parsed.val.sender.v) \o <<SP>>
                     ELSE <<>>
       IN rendered = prefix \o ReplyTypeToString(body.reply_type)
                       \o (IF body.params.args = <<>> THEN <<>>
                           ELSE <<SP>> \o MessageParamsToString(body.params))

\* C24: Message parse takes the text between a leading ':' and the first
\* space as the Sender exactly when the line starts with ':' and has a space,
\* and rejects the line when that text is no Sender; otherwise the whole line
\* is the body and there is no sender.  A body that starts with an ASCII
\* uppercase letter is a Command, one that starts with an ASCII digit is a
\* reply code (the text up to the first space) and a parameter list (the
\* rest), and any other body is rejected.
C24_MessageParse ==
  stage # "idle"
    => LET line == TrimEnd(subject)
           has_sender == Len(line) > 0 /\ line[1] = COLON /\ \E i \in 1..Len(line) : line[i] = SP
           first == CHOOSE i \in 1..Len(line) : line[i] = SP /\ \A j \in 1..(i - 1) : line[j] # SP
           sender == IF has_sender THEN SenderFromStr(SubSeq(line, 2, first - 1)) ELSE Ok(None)
           body == IF has_sender THEN SubSeq(line, first + 1, Len(line)) ELSE line
           space == IF \E i \in 1..Len(body) : body[i] = SP
                    THEN CHOOSE i \in 1..Len(body) : body[i] = SP /\ \A j \in 1..(i - 1) : body[j] # SP
                    ELSE Len(body) + 1
           accepted == stage \in {"parsed", "rendered", "done", "panic"}
       IN /\ (has_sender /\ ~sender.ok) => stage = "rejected"
          /\ accepted => parsed.val.sender = (IF has_sender THEN Some(sender.val) ELSE None)
          /\ (accepted /\ body[1] \in Upper) => parsed.val.body.t = "Command"
          /\ (accepted /\ body[1] \in Digit)
               => /\ parsed.val.body.t = "Reply"
                  /\ Ok(parsed.val.body.reply_type) = ReplyTypeFromStr(SubSeq(body, 1, space - 1))
                  /\ Ok(parsed.val.body.params) = MessageParamsFromStr(SubSeq(body, space + 1, Len(body)))
          /\ (Len(body) = 0 \/ body[1] \notin Upper \cup Digit) => stage = "rejected"
          /\ (has_sender /\ sender.ok /\ Len(body) > 0 /\ body[1] \in Digit
                /\ ReplyTypeFromStr(SubSeq(body, 1, space - 1)).ok
                /\ MessageParamsFromStr(SubSeq(body, space + 1, Len(body))).ok) => accepted

C24_Witness ==
  /\ stage = "parsed"
  /\ subject = <<":","n","!","u","@","h",".","c"," ","0","0","1"," ","a">> \o CRLF
  /\ parsed.val.sender.some
  /\ parsed.val.body.t = "Reply"
  /\ parsed.val.body.params.args = <<<<"a">>>>


\* C25: Recipient parse tries, in order, TargetMask for a text that begins
\* with '#' and has a '*' or '?', Channel, TargetMask, Nickname, and then the
\* form its punctuation selects (nick!user@host, user%host@servername,
\* user%host, user@servername); the result is the variant of the first rule
\* that succeeds, and a text for which none succeeds is rejected.
C25_RecipientOrder ==
  ("text" \in DOMAIN subject /\ subject.entity = "Recipient" /\ stage # "idle")
    => LET raw == subject.text
           n == Len(raw)
           Plain(a, b) == \A k \in a..b : raw[k] \notin {"!", "@", "%"}
           Three(c1, c2) ==
             {ij \in (1..n) \X (1..n) :
                /\ ij[1] < ij[2] /\ raw[ij[1]] = c1 /\ raw[ij[2]] = c2
                /\ Plain(1, ij[1] - 1) /\ Plain(ij[1] + 1, ij[2] - 1) /\ Plain(ij[2] + 1, n)}
           Two(c) == {i \in 1..n : raw[i] = c /\ Plain(1, i - 1) /\ Plain(i + 1, n)}
           rules ==
             << <<"TargetMask", /\ n > 0 /\ raw[1] = "#"
                                /\ \E k \in 1..n : raw[k] \in {"*", "?"}
                                /\ TargetMaskFromStr(raw).ok>>,
                <<"Channel", ChannelFromStr(raw).ok>>,
                <<"TargetMask", TargetMaskFromStr(raw).ok>>,
                <<"Nickname", NicknameFromStr(raw).ok>>,
                <<"NicknameUserHost",
                  \E ij \in Three("!", "@") :
                     /\ NicknameFromStr(SubSeq(raw, 1, ij[1] - 1)).ok
                     /\ UsernameFromStr(SubSeq(raw, ij[1] + 1, ij[2] - 1)).ok
                     /\ HostFromStr(SubSeq(raw, ij[2] + 1, n)).ok>>,
                <<"UserHostServername",
                  \E ij \in Three("%", "@") :
                     /\ UsernameFromStr(SubSeq(raw, 1, ij[1] - 1)).ok
                     /\ HostFromStr(SubSeq(raw, ij[1] + 1, ij[2] - 1)).ok
                     /\ ServernameFromStr(SubSeq(raw, ij[2] + 1, n)).ok>>,
                <<"UserHost",
                  \E i \in Two("%") : /\ UsernameFromStr(SubSeq(raw, 1, i - 1)).ok
                                      /\ HostFromStr(SubSeq(raw, i + 1, n)).ok>>,
                <<"UserServername",
                  \E i \in Two("@") : /\ UsernameFromStr(SubSeq(raw, 1, i - 1)).ok
                                      /\ ServernameFromStr(SubSeq(raw, i + 1, n)).ok>> >>
           succeeding == {r \in 1..Len(rules) : rules[r][2]}
           first == CHOOSE r \in succeeding : \A q \in succeeding : r <= q
       IN IF succeeding = {} THEN stage = "rejected"
          ELSE /\ stage # "rejected"
               /\ parsed.val.t = rules[first][1]

C25_Witness ==
  /\ stage = "parsed"
  /\ "text" \in DOMAIN subject
  /\ subject.entity = "Recipient"
  /\ subject.text = <<"#","*",".","f","i">>
  /\ ChannelFromStr(subject.text).ok
  /\ parsed.val.t = "TargetMask"

\* C26: Sender parse yields Server for a text that has a '.' and parses as a
\* Servername; otherwise it yields a User from exactly the forms nick,
\* nick@host and nick!user@host, and rejects every other text, nick!user
\* among them.
C26_SenderForms ==
  ("text" \in DOMAIN subject /\ subject.entity = "Sender" /\ stage # "idle")
    => LET raw == subject.text
           n == Len(raw)
           Plain(a, b) == \A k \in a..b : raw[k] \notin {"!", "@"}
           server == (\E k \in 1..n : raw[k] = ".") /\ ServernameFromStr(raw).ok
           users ==
             (IF Plain(1, n) /\ NicknameFromStr(raw).ok
              THEN {[t |-> "User", nickname |-> NicknameFromStr(raw).val, user |-> None,
                     host |-> None]}
              ELSE {})
             \cup {[t |-> "User", nickname |-> NicknameFromStr(SubSeq(raw, 1, i - 1)).val,
                    user |-> None, host |-> Some(HostFromStr(SubSeq(raw, i + 1, n)).val)] :
                     i \in {i \in 1..n : /\ raw[i] = "@" /\ Plain(1, i - 1) /\ Plain(i + 1, n)
                                         /\ NicknameFromStr(SubSeq(raw, 1, i - 1)).ok
                                         /\ HostFromStr(SubSeq(raw, i + 1, n)).ok}}
             \cup {[t |-> "User", nickname |-> NicknameFromStr(SubSeq(raw, 1, ij[1] - 1)).val,
                    user |-> Some(UsernameFromStr(SubSeq(raw, ij[1] + 1, ij[2] - 1)).val),
                    host |-> Some(HostFromStr(SubSeq(raw, ij[2] + 1, n)).val)] :
                     ij \in {ij \in (1..n) \X (1..n) :
                               /\ ij[1] < ij[2] /\ raw[ij[1]] = "!" /\ raw[ij[2]] = "@"
                               /\ Plain(1, ij[1] - 1) /\ Plain(ij[1] + 1, ij[2] - 1)
                               /\ Plain(ij[2] + 1, n)
                               /\ NicknameFromStr(SubSeq(raw, 1, ij[1] - 1)).ok
                               /\ UsernameFromStr(SubSeq(raw, ij[1] + 1, ij[2] - 1)).ok
                               /\ HostFromStr(SubSeq(raw, ij[2] + 1, n)).ok}}
       IN IF server THEN stage # "rejected" /\ parsed.val.t = "Server"
          ELSE IF users = {} THEN stage = "rejected"
          ELSE stage # "rejected" /\ parsed.val \in users

C26_Witness ==
  /\ stage = "rejected"
  /\ "text" \in DOMAIN subject
  /\ subject.entity = "Sender"
  /\ subject.text = <<"n","!","u">>


\* C27: what successive polls return depends on the bytes of the stream only,
\* not on how their arrival is split: a poll that finds no complete line
\* returns None and loses none of the bytes received, so the k-th line a poll
\* reads is the whole k-th line of the stream.
C27_SplitArrival ==
  /\ lastRead = "wouldblock" => pollResult = PollNone
  /\ \A k \in 1..Len(reads) :
       /\ k <= Len(segments)
       /\ reads[k] = segments[k].text \o CRLF \o segments[k].extra


\* C28: for every MessageParams p returned by parse, parsing the rendering of
\* p returns p: the same parameters in the same order, also when the last one
\* is empty or begins with ':'.
C28_ParamsRoundTrip ==
  (stage = "rendered" /\ parsed.op = "parse")
    => MessageParamsFromStr(rendered) = Ok(subject)


\* C29: the main loop takes turns between one poll and one attempt to take a
\* line from the terminal's channel, so the k-th line sent to the channel is
\* in the end handed to the connection's writer (unless main has ended),
\* also while lines from the server keep arriving.
C29_WaitingLineWritten ==
  \A k \in 1..MaxTyped :
    (reparsed >= k) ~> (Len(calls) >= k \/ stage \in {"exit", "panic"})


\* C30: formatting a ParseError for display comes to an end, it does not use
\* up the stack, and the text it returns names the component that rejected
\* the input.
C30_DisplayTerminates ==
  /\ stage # "overflow"
  /\ stage = "returned" => rendered = <<"Unable to parse component: ", subject.err>>

====
